---------------------------- MODULE Spec2Model ----------------------------
(***************************************************************************)
(* Verification model of bs2o (bank statement PDF -> csv/html/OneNote):     *)
(* the monthly aggregator, the raster canvas, the PNG encoder and the chart *)
(* composer of src/bs2o/charts.py, with the helpers they rest on.           *)
(*                                                                          *)
(* Conventions                                                              *)
(*   - A date_iso string "YYYY-MM-DD" is the triple <<YYYY, MM, DD>>: the   *)
(*     fixed-width zero-padded text and the triple determine one another.   *)
(*   - An input amount (a Python float) is an integer number of mills       *)
(*     (1/1000 of the currency unit), or None.  A value rounded by          *)
(*     round(x, 2) is an integer number of cents.                           *)
(*   - A colour is a triple of bytes.                                       *)
(***************************************************************************)
EXTENDS Integers, Sequences, FiniteSets, TLC

VARIABLES
    \* ---- aggregator (summarize_month, _month_days, _daily_series)
    records,      \* the month_records list handed to the aggregator
    summary,      \* Some(result of summarize_month), or None before the call
    days,         \* results of _daily_series: days, income, spending
    income,
    spending,
    apc,          \* position of the aggregator run
    \* ---- raster canvas and PNG encoder (Canvas, save_png)
    canvas,       \* the Canvas object: [width, height, pixels]
    drawn,        \* the primitives called on the canvas so far, in order
    png,          \* the byte sequence save_png assembled in memory
    disk,         \* the content of the file at `path`: None when absent
    outcome,      \* how the save_png call ended, "" before the call
    pixelCall,    \* Some(<<x, y, color>>) of the set_pixel call made, or None
    textCall,     \* Some(<<x, y, text, scale>>) of the draw_text call made, or None
    \* ---- proportion chart (_fallback_pie)
    pie,          \* the canvas of the proportion chart
    pieIn,        \* <<income, spending>> handed to _fallback_pie, in cents
    ppc,          \* position of the proportion chart's rendering
    \* ---- composer (generate_monthly_charts)
    hasMatplotlib,\* _HAS_MATPLOTLIB, set when the module is imported
    allRecords,   \* the records handed to generate_monthly_charts
    groups,       \* the months still to render: <<month key, records>>
    gpc,          \* position inside generate_monthly_charts
    calls,        \* the rendering calls made so far: <<function, month key>>
    files,        \* the chart files written
    outputs,      \* the mapping generate_monthly_charts returns
    chartsDir,    \* whether the directory export_dir / "charts" exists
    surfaces,     \* the Canvas objects created so far, in order of creation
    locals,       \* the local variables `pie` and `bar`: indexes in surfaces
    raised,       \* the exception that left generate_monthly_charts, or None
    \* ---- daily chart (_fallback_bars, _generate_with_matplotlib)
    barRecs,      \* the month_records handed to the daily chart
    barW,         \* the width of the canvas handed to _fallback_bars
    barBackend,   \* "fallback" or "matplotlib"
    barSeries,    \* the result of _daily_series: [days, income, spending]
    bpc,          \* position of the daily chart's rendering
    bi,           \* the index i of the loop over the days
    barOps,       \* the drawing calls made so far, in order
    \* ---- two months rendered concurrently by an enclosing scheduler
    cBackend,     \* "fallback" or "matplotlib": _HAS_MATPLOTLIB of the process
    cRecs,        \* the month_records of each render
    cpc,          \* the position of each render: [chart, step]
    cCanvas,      \* each render's local Canvas: the charts drawn on it
    cNum,         \* each render's figure number, picked inside plt.subplots
    cFig,         \* each render's local `fig`: an index in figObjs, 0 if none
    figObjs,      \* the Figure objects created: the charts drawn on each
    pyplotFigs,   \* pyplot's registry of open figures: <<number, Figure>>
    cFiles,       \* the chart files: <<file, charts the image shows>>
    cOut,         \* what each render returned: None until it returns
    \* ---- one run each of the remaining functions, as a record of its locals
    lineRun,      \* Canvas.draw_line: the endpoints and the loop's x, y, err
    convRun,      \* mineru_runner.convert_folder
    mdRun,        \* md_parser.parse_statement_markdown
    previewRun,   \* onenote_sync.sync_to_onenote_preview
    tokenRun,     \* onenote_sync token cache
    cfgRun,       \* config.save_config / load_config
    graphRun      \* onenote_sync.sync_to_onenote_graph

aggVars == <<records, summary, days, income, spending, apc>>

pngVars == <<canvas, drawn, png, disk, outcome, pixelCall, textCall>>

pieVars == <<pie, pieIn, ppc>>

genVars ==
    <<hasMatplotlib, allRecords, groups, gpc, calls, files, outputs,
      chartsDir, surfaces, locals, raised>>

barVars == <<barRecs, barW, barBackend, barSeries, bpc, bi, barOps>>

concVars ==
    <<cBackend, cRecs, cpc, cCanvas, cNum, cFig, figObjs, pyplotFigs, cFiles, cOut>>

runVars == <<lineRun, convRun, mdRun, previewRun, tokenRun, cfgRun, graphRun>>

vars == <<aggVars, pngVars, pieVars, genVars, barVars, concVars, runVars>>

\* what the actions of one part leave alone
notAgg == <<pngVars, pieVars, genVars, barVars, concVars, runVars>>

notPng == <<aggVars, pieVars, genVars, barVars, concVars, runVars>>

notPie == <<aggVars, pngVars, genVars, barVars, concVars, runVars>>

notGen == <<aggVars, pngVars, pieVars, barVars, concVars, runVars>>

notBar == <<aggVars, pngVars, pieVars, genVars, concVars, runVars>>

notConc == <<aggVars, pngVars, pieVars, genVars, barVars, runVars>>

chartVars == <<aggVars, pngVars, pieVars, genVars, barVars, concVars>>

notLine == <<chartVars, convRun, mdRun, previewRun, tokenRun, cfgRun, graphRun>>

notConv == <<chartVars, lineRun, mdRun, previewRun, tokenRun, cfgRun, graphRun>>

notMd == <<chartVars, lineRun, convRun, previewRun, tokenRun, cfgRun, graphRun>>

notPreview == <<chartVars, lineRun, convRun, mdRun, tokenRun, cfgRun, graphRun>>

notToken == <<chartVars, lineRun, convRun, mdRun, previewRun, cfgRun, graphRun>>

notCfg == <<chartVars, lineRun, convRun, mdRun, previewRun, tokenRun, graphRun>>

notGraph == <<chartVars, lineRun, convRun, mdRun, previewRun, tokenRun, cfgRun>>

\* a function that is not run
NotRun == [pc |-> "idle"]

RunsIdle ==
    /\ lineRun = NotRun /\ convRun = NotRun /\ mdRun = NotRun /\ previewRun = NotRun
    /\ tokenRun = NotRun /\ cfgRun = NotRun /\ graphRun = NotRun

\* An optional value: None is the empty tuple, a present value v is <<v>>.
None == <<>>

Some(v) == <<v>>

(***************************************************************************)
(* Bounds of the model.                                                     *)
(***************************************************************************)
MaxRecs == 2

(***************************************************************************)
(* Generic helpers.                                                         *)
(***************************************************************************)
Abs(n) == IF n < 0 THEN -n ELSE n

Max2(a, b) == IF a >= b THEN a ELSE b

Min2(a, b) == IF a <= b THEN a ELSE b

RECURSIVE SumSeq(_)
SumSeq(s) == IF s = <<>> THEN 0 ELSE Head(s) + SumSeq(Tail(s))

\* Python's `x or 0.0`: None and 0.0 are both falsy.
OrZero(x) == IF x = None THEN 0 ELSE x[1]

\* Python's truthiness of an optional float.
Truthy(x) == x # None /\ x[1] # 0

(***************************************************************************)
(* round(x, 2) on a value given in mills, result in cents.  Python rounds   *)
(* to the nearest representable value, ties to even.                        *)
(***************************************************************************)
Round2(mills) ==
    LET q == mills \div 10
        r == mills % 10
    IN  IF r < 5 THEN q
        ELSE IF r > 5 THEN q + 1
        ELSE IF q % 2 = 0 THEN q ELSE q + 1

(***************************************************************************)
(* md_parser.parse_date: "DDMonYY" -> date_iso.  The regular expression     *)
(* accepts any two digits for the day; only the month name is looked up.    *)
(***************************************************************************)
MONTHS ==
    [JAN |-> 1, FEB |-> 2, MAR |-> 3, APR |-> 4, MAY |-> 5, JUN |-> 6,
     JUL |-> 7, AUG |-> 8, SEP |-> 9, OCT |-> 10, NOV |-> 11, DEC |-> 12]

parse_date(dd, monName, yy) ==
    IF ~(dd \in 0..99 /\ yy \in 0..99) THEN None
    ELSE IF monName \notin DOMAIN MONTHS THEN None
    ELSE <<2000 + yy, MONTHS[monName], dd>>

\* models.Transaction.month_key: date_iso[:7] with "-" replaced by "."
month_key(date_iso) == <<date_iso[1], date_iso[2]>>

(***************************************************************************)
(* datetime.date arithmetic used by _month_days (proleptic Gregorian).      *)
(***************************************************************************)
IsLeap(y) == (y % 4 = 0) /\ ((y % 100 # 0) \/ (y % 400 = 0))

DaysInMonth(y, m) ==
    IF m = 2 THEN (IF IsLeap(y) THEN 29 ELSE 28)
    ELSE IF m \in {4, 6, 9, 11} THEN 30 ELSE 31

\* date.fromordinal(cur.toordinal() + 1)
NextDate(d) ==
    IF d[3] < DaysInMonth(d[1], d[2]) THEN <<d[1], d[2], d[3] + 1>>
    ELSE IF d[2] < 12 THEN <<d[1], d[2] + 1, 1>>
    ELSE <<d[1] + 1, 1, 1>>

\* date.__lt__
DateLess(a, b) ==
    \/ a[1] < b[1]
    \/ a[1] = b[1] /\ a[2] < b[2]
    \/ a[1] = b[1] /\ a[2] = b[2] /\ a[3] < b[3]

\* The end of the span: the first day of the following month.
MonthEnd(year, month) ==
    IF month = 12 THEN <<year + 1, 1, 1>> ELSE <<year, month + 1, 1>>

\* Mutant of DaysFrom: `while cur <= end`, which lets the end day in.
RECURSIVE DaysFromInclusiveBug(_, _)
DaysFromInclusiveBug(cur, end) ==
    IF DateLess(cur, end) \/ cur = end
    THEN <<cur>> \o DaysFromInclusiveBug(NextDate(cur), end) ELSE <<>>

\* while cur < end: days.append(cur.isoformat()); cur = next day
RECURSIVE DaysFrom(_, _)
DaysFrom(cur, end) ==
    IF DateLess(cur, end) THEN <<cur>> \o DaysFrom(NextDate(cur), end) ELSE <<>>

\* charts._month_days
month_days(month_records) ==
    LET first == month_records[1].date_iso
        year  == first[1]
        month == first[2]
    IN  DaysFrom(<<year, month, 1>>, MonthEnd(year, month))

(***************************************************************************)
(* charts._daily_series: the defaultdict buckets, filled record by record.  *)
(***************************************************************************)
RECURSIVE BucketSum(_, _, _)
BucketSum(month_records, field, d) ==
    IF month_records = <<>> THEN 0
    ELSE LET r == Head(month_records)
             rest == BucketSum(Tail(month_records), field, d)
         IN  IF Truthy(r[field]) /\ r.date_iso = d THEN r[field][1] + rest ELSE rest

\* Mutant of BucketSum: `=` in place of `+=`, the last record of a day wins.
RECURSIVE BucketLast(_, _, _)
BucketLast(month_records, field, d) ==
    IF month_records = <<>> THEN 0
    ELSE LET r == month_records[Len(month_records)]
         IN  IF Truthy(r[field]) /\ r.date_iso = d THEN r[field][1]
             ELSE BucketLast(SubSeq(month_records, 1, Len(month_records) - 1), field, d)

DailyAmountsOverwriteBug(month_records, field, ds) ==
    [i \in 1..Len(ds) |-> Round2(BucketLast(month_records, field, ds[i]))]

DailyAmounts(month_records, field, ds) ==
    [i \in 1..Len(ds) |-> Round2(BucketSum(month_records, field, ds[i]))]

daily_series(month_records) ==
    LET ds == month_days(month_records)
    IN  [days     |-> ds,
         income   |-> DailyAmounts(month_records, "paid_in", ds),
         spending |-> DailyAmounts(month_records, "withdrawn", ds)]

(***************************************************************************)
(* charts.summarize_month: sum, then round once.                            *)
(***************************************************************************)
RECURSIVE SumField(_, _)
SumField(month_records, field) ==
    IF month_records = <<>> THEN 0
    ELSE OrZero(Head(month_records)[field]) + SumField(Tail(month_records), field)

RECURSIVE SumFieldRounded(_, _)
SumFieldRounded(month_records, field) ==
    IF month_records = <<>> THEN 0
    ELSE Round2(OrZero(Head(month_records)[field]))
         + SumFieldRounded(Tail(month_records), field)

\* Mutant of MonthTotal: every amount rounded before the summation.
MonthTotalRoundEachBug(month_records, field) ==
    SumFieldRounded(month_records, field)

MonthTotal(month_records, field) == Round2(SumField(month_records, field))

summarize_month(month_records) ==
    LET total_income   == MonthTotal(month_records, "paid_in")
        total_spending == MonthTotal(month_records, "withdrawn")
    IN  [total_income   |-> total_income,
         total_spending |-> total_spending,
         net_increase   |-> Round2(10 * (total_income - total_spending))]

(***************************************************************************)
(* Inputs of the aggregator: one month's rows as md_parser emits them.      *)
(* Every row of a month shares the month name and the year; the day text    *)
(* is any two digits.  Amounts are in mills.                                *)
(***************************************************************************)
MonthTexts == {<<"FEB", 23>>, <<"FEB", 24>>, <<"APR", 24>>, <<"DEC", 24>>}

DayTexts == {1, 3, 31}

\* <<withdrawn, paid_in>> of a row: a deposit, a withdrawal, a row with both
\* amounts below one cent, a deposit below one cent, and a row with a zero
\* deposit and no withdrawal.
AmountPairs ==
    {<<None, Some(100000)>>, <<Some(40000), None>>, <<Some(4), Some(4)>>,
     <<None, Some(4)>>, <<None, Some(0)>>}

RowsOf(mt) ==
    {[date_iso |-> parse_date(dd, mt[1], mt[2]), withdrawn |-> a[1], paid_in |-> a[2]] :
        dd \in DayTexts, a \in AmountPairs}

AggInit ==
    /\ \E mt \in MonthTexts : \E n \in 1..MaxRecs :
          records \in [1..n -> RowsOf(mt)]
    /\ summary = None
    /\ days = <<>>
    /\ income = <<>>
    /\ spending = <<>>
    /\ apc = "summarize"

AggIdle ==
    /\ records = <<>>
    /\ summary = None
    /\ days = <<>>
    /\ income = <<>>
    /\ spending = <<>>
    /\ apc = "idle"

\* generate_monthly_charts: summary = summarize_month(month_records)
SummarizeMonth ==
    /\ apc = "summarize"
    /\ summary' = Some(summarize_month(records))
    /\ apc' = "series"
    /\ UNCHANGED <<records, days, income, spending>>
    /\ UNCHANGED notAgg

\* _fallback_bars / _generate_with_matplotlib: _daily_series(month_records)
DailySeries ==
    /\ apc = "series"
    /\ LET r == daily_series(records)
       IN  /\ days' = r.days
           /\ income' = r.income
           /\ spending' = r.spending
    /\ apc' = "done"
    /\ UNCHANGED <<records, summary>>
    /\ UNCHANGED notAgg

AggNext == SummarizeMonth \/ DailySeries

(***************************************************************************)
(* charts.Canvas: a row-major buffer of RGB pixels.  pixels[y*width + x]    *)
(* of the code is pixels[y*width + x + 1] here (sequences start at 1).      *)
(***************************************************************************)
WHITE == <<255, 255, 255>>

\* _to_rgb(INCOME_COLOR), _to_rgb(SPENDING_COLOR): int(n / 255.0 * 255) = n
INCOME_RGB == <<44, 127, 184>>

SPENDING_RGB == <<242, 142, 43>>

TEXT_RGB == <<35, 35, 35>>

AXIS_RGB == <<100, 100, 100>>

OUTLINE_RGB == <<65, 65, 65>>

\* the function as a list (a sequence with indices 1..n)
AsList(f) == f \o <<>>

NewCanvas(width, height, background) ==
    [width |-> width, height |-> height,
     pixels |-> AsList([i \in 1..(width * height) |-> background])]

set_pixel_grow_bug(c, x, y, color) ==
    IF 0 <= x /\ x < c.width /\ 0 <= y /\ y < c.height
    THEN [c EXCEPT !.pixels[y * c.width + x + 1] = color]
    ELSE [c EXCEPT !.pixels = Append(@, color)]

set_pixel_no_x_check_bug(c, x, y, color) ==
    IF 0 <= y /\ y < c.height /\ y * c.width + x >= 0
    THEN [c EXCEPT !.pixels[y * c.width + x + 1] = color]
    ELSE c

set_pixel(c, x, y, color) ==
    IF 0 <= x /\ x < c.width /\ 0 <= y /\ y < c.height
    THEN [c EXCEPT !.pixels[y * c.width + x + 1] = color]
    ELSE c

\* set_pixel for every point of a set, all in one colour (the order of the
\* calls does not matter then).  Here and in the loops below, a test such as
\* c.width < 0 is never true: it reads the accumulated value, so that the
\* value is computed before the loop goes on.
RECURSIVE PaintAll(_, _, _)
PaintAll(c, S, color) ==
    IF S = {} \/ c.width < 0 THEN c
    ELSE LET p == CHOOSE q \in S : TRUE
         IN  PaintAll(set_pixel(c, p[1], p[2], color), S \ {p}, color)

\* The `while True` loop of draw_line; L holds the values fixed before it.
\* draw_line before its loop: the deltas, the step signs and the first error.
line_setup(x1, y1, x2, y2) ==
    LET dx == Abs(x2 - x1)
        dy == -Abs(y2 - y1)
    IN  [x2 |-> x2, y2 |-> y2, dx |-> dx, dy |-> dy,
         sx |-> IF x1 < x2 THEN 1 ELSE -1,
         sy |-> IF y1 < y2 THEN 1 ELSE -1,
         err |-> dx + dy]

\* The loop body with the second test written as an elif: a step moves along
\* one axis only.
line_step_elif_bug(x, y, err, L) ==
    LET e2 == 2 * err
    IN  IF e2 >= L.dy THEN [x |-> x + L.sx, y |-> y, err |-> err + L.dy]
        ELSE IF e2 <= L.dx THEN [x |-> x, y |-> y + L.sy, err |-> err + L.dx]
        ELSE [x |-> x, y |-> y, err |-> err]

\* The loop body after the break test: both tests read the same e2.
line_step(x, y, err, L) ==
    LET e2    == 2 * err
        stepX == e2 >= L.dy
        err1  == IF stepX THEN err + L.dy ELSE err
        x1    == IF stepX THEN x + L.sx ELSE x
        stepY == e2 <= L.dx
        err2  == IF stepY THEN err1 + L.dx ELSE err1
        y1    == IF stepY THEN y + L.sy ELSE y
    IN  [x |-> x1, y |-> y1, err |-> err2]

RECURSIVE LineLoop(_, _, _, _, _, _)
LineLoop(c, x, y, err, L, color) ==
    LET c1 == set_pixel(c, x, y, color)
    IN  IF (x = L.x2 /\ y = L.y2) \/ c1.width < 0 THEN c1
        ELSE LET n == line_step(x, y, err, L)
             IN  LineLoop(c1, n.x, n.y, n.err, L, color)

draw_line(c, x1, y1, x2, y2, color) ==
    LET L == line_setup(x1, y1, x2, y2)
    IN  LineLoop(c, x1, y1, L.err, L, color)

draw_rect(c, x, y, w, h, color, fill) ==
    IF w <= 0 \/ h <= 0 THEN c
    ELSE IF fill
    THEN PaintAll(c, {<<xx, yy>> : xx \in x..(x + w - 1), yy \in y..(y + h - 1)}, color)
    ELSE LET a == draw_line(c, x, y, x + w - 1, y, color)
             b == draw_line(a, x, y, x, y + h - 1, color)
             d == draw_line(b, x + w - 1, y, x + w - 1, y + h - 1, color)
         IN  draw_line(d, x, y + h - 1, x + w - 1, y + h - 1, color)

\* _DIGIT_FONT: 3 wide, 5 tall; a row "101" is <<1, 0, 1>>.
DIGIT_FONT ==
    [ch \in {"0", "1", "2", "3", "4", "5", "6", "7", "8", "9", ".", "-", ",", " "} |->
        CASE ch = "0" -> <<<<1,1,1>>, <<1,0,1>>, <<1,0,1>>, <<1,0,1>>, <<1,1,1>>>>
          [] ch = "1" -> <<<<0,1,0>>, <<1,1,0>>, <<0,1,0>>, <<0,1,0>>, <<1,1,1>>>>
          [] ch = "2" -> <<<<1,1,1>>, <<0,0,1>>, <<1,1,1>>, <<1,0,0>>, <<1,1,1>>>>
          [] ch = "3" -> <<<<1,1,1>>, <<0,0,1>>, <<1,1,1>>, <<0,0,1>>, <<1,1,1>>>>
          [] ch = "4" -> <<<<1,0,1>>, <<1,0,1>>, <<1,1,1>>, <<0,0,1>>, <<0,0,1>>>>
          [] ch = "5" -> <<<<1,1,1>>, <<1,0,0>>, <<1,1,1>>, <<0,0,1>>, <<1,1,1>>>>
          [] ch = "6" -> <<<<1,1,1>>, <<1,0,0>>, <<1,1,1>>, <<1,0,1>>, <<1,1,1>>>>
          [] ch = "7" -> <<<<1,1,1>>, <<0,0,1>>, <<0,0,1>>, <<0,0,1>>, <<0,0,1>>>>
          [] ch = "8" -> <<<<1,1,1>>, <<1,0,1>>, <<1,1,1>>, <<1,0,1>>, <<1,1,1>>>>
          [] ch = "9" -> <<<<1,1,1>>, <<1,0,1>>, <<1,1,1>>, <<0,0,1>>, <<1,1,1>>>>
          [] ch = "." -> <<<<0,0,0>>, <<0,0,0>>, <<0,0,0>>, <<0,0,0>>, <<0,1,0>>>>
          [] ch = "-" -> <<<<0,0,0>>, <<0,0,0>>, <<1,1,1>>, <<0,0,0>>, <<0,0,0>>>>
          [] ch = "," -> <<<<0,0,0>>, <<0,0,0>>, <<0,0,0>>, <<0,1,0>>, <<1,0,0>>>>
          [] ch = " " -> <<<<0,0,0>>, <<0,0,0>>, <<0,0,0>>, <<0,0,0>>, <<0,0,0>>>>]

\* _DIGIT_FONT.get(char, _DIGIT_FONT[" "])
GlyphOf(char) == IF char \in DOMAIN DIGIT_FONT THEN DIGIT_FONT[char] ELSE DIGIT_FONT[" "]

\* The pixels one character sets, with the cursor at cursor_x.
GlyphPoints(glyph, cursor_x, y, scale) ==
    {<<cursor_x + gx * scale + sx, y + gy * scale + sy>> :
        <<gy, gx, sy, sx>> \in
            {q \in (0..(Len(glyph) - 1)) \X (0..(Len(glyph[1]) - 1))
                    \X (0..(scale - 1)) \X (0..(scale - 1)) :
                glyph[q[1] + 1][q[2] + 1] = 1}}

RECURSIVE TextLoop(_, _, _, _, _, _)
TextLoopSkipUnknownBug(c, cursor_x, y, text, color, scale) ==
    IF text = <<>> THEN c
    ELSE IF Head(text) \notin DOMAIN DIGIT_FONT
    THEN TextLoop(c, cursor_x, y, Tail(text), color, scale)
    ELSE LET glyph == GlyphOf(Head(text))
         IN  TextLoop(PaintAll(c, GlyphPoints(glyph, cursor_x, y, scale), color),
                      cursor_x + (Len(glyph[1]) + 1) * scale, y, Tail(text), color, scale)

TextLoop(c, cursor_x, y, text, color, scale) ==
    IF text = <<>> THEN c
    ELSE LET glyph == GlyphOf(Head(text))
         IN  TextLoop(PaintAll(c, GlyphPoints(glyph, cursor_x, y, scale), color),
                      cursor_x + (Len(glyph[1]) + 1) * scale, y, Tail(text), color, scale)

draw_text(c, x, y, text, color, scale) == TextLoop(c, x, y, text, color, scale)

(***************************************************************************)
(* zlib.crc32, struct.pack(">I", n), zlib.compress (library code).          *)
(***************************************************************************)
\* One bit of a ^ b: p is the bit's power of two.
XorBit(a, b, p) == (((a \div p) + (b \div p)) % 2) * p

\* a ^ b on values below 2^16
Xor(a, b) ==
    XorBit(a, b, 1) + XorBit(a, b, 2) + XorBit(a, b, 4) + XorBit(a, b, 8)
    + XorBit(a, b, 16) + XorBit(a, b, 32) + XorBit(a, b, 64) + XorBit(a, b, 128)
    + XorBit(a, b, 256) + XorBit(a, b, 512) + XorBit(a, b, 1024) + XorBit(a, b, 2048)
    + XorBit(a, b, 4096) + XorBit(a, b, 8192) + XorBit(a, b, 16384) + XorBit(a, b, 32768)

\* A 32-bit value is the pair <<high 16 bits, low 16 bits>>.
Xor32(a, b) == <<Xor(a[1], b[1]), Xor(a[2], b[2])>>

\* c >> 8 on a 32-bit value
Shr8(c) == <<c[1] \div 256, (c[1] % 256) * 256 + (c[2] \div 256)>>

\* The table of zlib's CRC-32 (polynomial 0xEDB88320), entry n at n + 1.
CrcTable ==
    <<
      <<0, 0>>, <<30471, 12438>>, <<60942, 24876>>, <<39177, 20922>>,
      <<1901, 50201>>, <<28778, 62607>>, <<59747, 42293>>, <<40548, 38307>>,
      <<3803, 34866>>, <<31196, 47268>>, <<57557, 59678>>, <<38866, 55688>>,
      <<2486, 19499>>, <<32433, 31933>>, <<59320, 11527>>, <<37055, 7569>>,
      <<7607, 4196>>, <<27312, 8434>>, <<62393, 29000>>, <<33982, 16862>>,
      <<6874, 54397>>, <<28125, 58603>>, <<62676, 46417>>, <<33747, 34247>>,
      <<4972, 38998>>, <<25707, 43200>>, <<64866, 63866>>, <<35429, 51692>>,
      <<5121, 23631>>, <<25350, 27865>>, <<64015, 15715>>, <<36104, 3573>>,
      <<15214, 8392>>, <<19561, 4190>>, <<54624, 16868>>, <<41575, 29042>>,
      <<15363, 58577>>, <<19204, 54343>>, <<53773, 34301>>, <<42250, 46443>>,
      <<13749, 43258>>, <<17074, 39020>>, <<56251, 51670>>, <<44220, 63808>>,
      <<13016, 27875>>, <<17887, 23669>>, <<56534, 3535>>, <<43985, 15705>>,
      <<9945, 12460>>, <<20958, 58>>, <<51415, 20864>>, <<49104, 24854>>,
      <<8628, 62645>>, <<22195, 50211>>, <<53178, 38297>>, <<47293, 42255>>,
      <<10242, 47262>>, <<24325, 34824>>, <<50700, 55730>>, <<45323, 59684>>,
      <<12143, 31879>>, <<22632, 19473>>, <<49505, 7595>>, <<46694, 11581>>,
      <<30428, 16784>>, <<475, 28934>>, <<39122, 8380>>, <<61397, 4138>>,
      <<29105, 34185>>, <<1718, 46367>>, <<40895, 58533>>, <<59576, 54323>>,
      <<30727, 51618>>, <<3840, 63796>>, <<38409, 43150>>, <<57614, 38936>>,
      <<32618, 3515>>, <<2157, 15661>>, <<37220, 27799>>, <<58979, 23553>>,
      <<27499, 20980>>, <<7276, 24930>>, <<34149, 12504>>, <<62050, 78>>,
      <<27654, 38381>>, <<6913, 42363>>, <<33288, 62657>>, <<62735, 50263>>,
      <<26032, 55750>>, <<4791, 59728>>, <<35774, 47338>>, <<64697, 34940>>,
      <<25309, 7647>>, <<5594, 11593>>, <<36051, 31987>>, <<64468, 19557>>,
      <<19890, 24920>>, <<15029, 20942>>, <<41916, 116>>, <<54459, 12514>>,
      <<19167, 42305>>, <<15832, 38359>>, <<42193, 50285>>, <<54230, 62715>>,
      <<17257, 59754>>, <<13422, 55804>>, <<44391, 34886>>, <<55904, 47312>>,
      <<17412, 11635>>, <<13059, 7653>>, <<43530, 19551>>, <<56589, 31945>>,
      <<20485, 28988>>, <<9986, 16810>>, <<48651, 4112>>, <<51468, 8326>>,
      <<22376, 46373>>, <<8303, 34227>>, <<47462, 54281>>, <<52833, 58527>>,
      <<24286, 63758>>, <<10713, 51608>>, <<45264, 38946>>, <<51159, 43188>>,
      <<22963, 15639>>, <<11956, 3457>>, <<47037, 23611>>, <<49338, 27821>>,
      <<60856, 33568>>, <<39615, 46006>>, <<950, 57868>>, <<29873, 53914>>,
      <<60117, 18233>>, <<40402, 30639>>, <<1243, 9749>>, <<29660, 5763>>,
      <<58211, 2834>>, <<37988, 15236>>, <<3437, 27198>>, <<31338, 23208>>,
      <<58382, 53003>>, <<37641, 65437>>, <<2560, 44583>>, <<32007, 40625>>,
      <<61455, 37700>>, <<34568, 41938>>, <<7681, 62056>>, <<26886, 49918>>,
      <<63330, 22365>>, <<32869, 26571>>, <<6508, 13937>>, <<28267, 1767>>,
      <<65236, 7030>>, <<35283, 11232>>, <<4314, 31322>>, <<26589, 19148>>,
      <<63929, 57199>>, <<36542, 61433>>, <<6071, 48707>>, <<24752, 36565>>,
      <<54998, 41960>>, <<41425, 37758>>, <<14552, 49860>>, <<20447, 62034>>,
      <<53691, 26609>>, <<42684, 22375>>, <<16309, 1757>>, <<18610, 13899>>,
      <<55309, 11226>>, <<44810, 6988>>, <<13827, 19190>>, <<16644, 31328>>,
      <<57184, 61379>>, <<43111, 57173>>, <<12654, 36591>>, <<18025, 48761>>,
      <<52065, 45964>>, <<48230, 33562>>, <<9583, 53920>>, <<21096, 57910>>,
      <<52236, 30613>>, <<47883, 18179>>, <<8706, 5817>>, <<21765, 9775>>,
      <<50618, 15294>>, <<45757, 2856>>, <<11188, 23186>>, <<23731, 27140>>,
      <<49879, 65447>>, <<46544, 53041>>, <<11481, 40587>>, <<23518, 44573>>,
      <<39780, 49840>>, <<60515, 61990>>, <<30058, 41884>>, <<621, 37642>>,
      <<39945, 1705>>, <<60174, 13887>>, <<29191, 26501>>, <<1280, 22291>>,
      <<38335, 19074>>, <<58040, 31252>>, <<31665, 11182>>, <<3254, 6968>>,
      <<37586, 36507>>, <<58837, 48653>>, <<31964, 61367>>, <<3035, 57121>>,
      <<34515, 53972>>, <<61908, 57922>>, <<26845, 46072>>, <<8154, 33646>>,
      <<33214, 5837>>, <<63161, 9819>>, <<28592, 30689>>, <<6327, 18295>>,
      <<34824, 23270>>, <<65295, 27248>>, <<26118, 15306>>, <<4353, 2908>>,
      <<36709, 40703>>, <<63586, 44649>>, <<24939, 65491>>, <<5740, 53061>>,
      <<40970, 57976>>, <<55053, 53998>>, <<19972, 33620>>, <<14595, 46018>>,
      <<42855, 9825>>, <<53344, 5879>>, <<18793, 18253>>, <<15982, 30683>>,
      <<44753, 27210>>, <<55766, 23260>>, <<16607, 2918>>, <<14296, 15344>>,
      <<43452, 44627>>, <<57019, 40645>>, <<18354, 53119>>, <<12469, 65513>>,
      <<48573, 61980>>, <<51898, 49802>>, <<21427, 37680>>, <<9396, 41894>>,
      <<47824, 13829>>, <<52695, 1683>>, <<21726, 22313>>, <<9177, 26559>>,
      <<45926, 31278>>, <<50273, 19128>>, <<23912, 6914>>, <<10863, 11156>>,
      <<46091, 48695>>, <<49932, 36513>>, <<23045, 57115>>, <<11522, 61325>>
    >>

\* crc = table[(crc ^ byte) & 0xFF] ^ (crc >> 8)
CrcStep(crc, byte) == Xor32(CrcTable[Xor(crc[2] % 256, byte) + 1], Shr8(crc))

\* The bytes lo..hi folded into crc in order (split in halves, so that the
\* evaluation stays shallow).
RECURSIVE CrcLoop(_, _, _, _)
CrcLoop(crc, bytes, lo, hi) ==
    IF lo > hi \/ crc[1] < 0 THEN crc
    ELSE IF lo = hi THEN CrcStep(crc, bytes[lo])
    ELSE LET mid == (lo + hi) \div 2
         IN  CrcLoop(CrcLoop(crc, bytes, lo, mid), bytes, mid + 1, hi)

\* zlib.crc32(bytes) & 0xFFFFFFFF
crc32(bytes) == Xor32(CrcLoop(<<65535, 65535>>, bytes, 1, Len(bytes)), <<65535, 65535>>)

\* struct.pack(">I", v) of a 32-bit value given as a pair
BE32Pair(v) == <<v[1] \div 256, v[1] % 256, v[2] \div 256, v[2] % 256>>

\* struct.pack(">I", n): four bytes, most significant first
BE32(n) == <<(n \div 16777216) % 256, (n \div 65536) % 256, (n \div 256) % 256, n % 256>>

\* a = (a + byte) % 65521; b = (b + a) % 65521, on the pair <<b, a>>
AdlerStep(ba, byte) ==
    LET a1 == (ba[2] + byte) % 65521 IN <<(ba[1] + a1) % 65521, a1>>

RECURSIVE AdlerLoop(_, _, _, _)
AdlerLoop(ba, bytes, lo, hi) ==
    IF lo > hi \/ ba[1] < 0 THEN ba
    ELSE IF lo = hi THEN AdlerStep(ba, bytes[lo])
    ELSE LET mid == (lo + hi) \div 2
         IN  AdlerLoop(AdlerLoop(ba, bytes, lo, mid), bytes, mid + 1, hi)

\* zlib.adler32(bytes), as the pair <<high 16 bits, low 16 bits>>
adler32(bytes) == AdlerLoop(<<0, 1>>, bytes, 1, Len(bytes))

\* zlib.compress(raw, level=9).  The library promises a zlib stream that
\* inflates to raw.  The model emits the stream in its stored form: the
\* two-byte header of level 9, one final stored block (length and its
\* complement, little-endian, then the data) and the Adler-32 of the data.
zlib_compress(raw) ==
    <<120, 218, 1, Len(raw) % 256, Len(raw) \div 256,
      255 - (Len(raw) % 256), 255 - (Len(raw) \div 256)>>
    \o raw \o BE32Pair(adler32(raw))

(***************************************************************************)
(* charts._png_chunk and charts.save_png                                    *)
(***************************************************************************)
PNG_SIGNATURE == <<137, 80, 78, 71, 13, 10, 26, 10>>

TAG_IHDR == <<73, 72, 68, 82>>

TAG_IDAT == <<73, 68, 65, 84>>

TAG_IEND == <<73, 69, 78, 68>>

\* Mutant of png_chunk: the CRC taken over the payload alone.
png_chunk_crc_of_data_bug(tag, data) ==
    BE32(Len(data)) \o tag \o data \o BE32Pair(crc32(data))

png_chunk(tag, data) ==
    BE32(Len(data)) \o tag \o data \o BE32Pair(crc32(tag \o data))

RECURSIVE RowTriples(_, _, _)
RowTriples(c, y, x) ==
    IF x >= c.width THEN <<>>
    ELSE c.pixels[y * c.width + x + 1] \o RowTriples(c, y, x + 1)

\* Mutant of RowTriples: the pixel read at x * height + y (column-major).
RECURSIVE RowTriplesTransposedBug(_, _, _)
RowTriplesTransposedBug(c, y, x) ==
    IF x >= c.width THEN <<>>
    ELSE c.pixels[x * c.height + y + 1] \o RowTriplesTransposedBug(c, y, x + 1)

RowBytesTransposedBug(c, y) == <<0>> \o RowTriplesTransposedBug(c, y, 0)

\* raw.append(0); then r, g, b of every pixel of row y
RowBytes(c, y) == <<0>> \o RowTriples(c, y, 0)

RECURSIVE RawRows(_, _)
RawRows(c, y) ==
    IF y >= c.height THEN <<>> ELSE RowBytes(c, y) \o RawRows(c, y + 1)

png_ihdr(c) == BE32(c.width) \o BE32(c.height) \o <<8, 2, 0, 0, 0>>

\* The byte sequence save_png hands to path.write_bytes.
save_png_bytes(c) ==
    PNG_SIGNATURE
    \o png_chunk(TAG_IHDR, png_ihdr(c))
    \o png_chunk(TAG_IDAT, zlib_compress(RawRows(c, 0)))
    \o png_chunk(TAG_IEND, <<>>)

(***************************************************************************)
(* A canvas is created, drawn on (a line, a filled rectangle, an outline    *)
(* rectangle, a text, each optional, in the order _fallback_bars uses) and  *)
(* handed to save_png once.                                                 *)
(***************************************************************************)
MaxW == 4

MaxH == 3

LineArgs == {<<0, 0, 3, 1>>, <<2, 1, -1, 0>>, <<-12, 9, 14, -8>>}

FillArgs == {<<0, 0, 2, 2>>, <<1, -1, 5, 2>>, <<-90, -90, 91, -4>>}

OutlineArgs == {<<0, 0, 3, 3>>}

\* <<x, y, text, scale>>
TextArgs ==
    {<<0, 0, <<"1">>, 1>>, <<-1, 0, <<"7", "x">>, 1>>, <<-4, 0, <<"x", "1">>, 1>>,
     <<-4, 0, <<"8", "1">>, 1>>, <<-7, -1, <<"A", "4">>, 2>>, <<0, 0, <<"x", "y">>, 1>>}

\* The order in which _fallback_bars calls the primitives; _fallback_pie
\* calls set_pixel on the new canvas and draw_text after it.
DrawRank == [pixel |-> 3, line |-> 1, fill |-> 2, outline |-> 3, text |-> 4]

MayDraw(op) == \A i \in 1..Len(drawn) : DrawRank[drawn[i]] < DrawRank[op]

\* A file a previous run left at the same path.
OldFile == save_png_bytes(NewCanvas(1, 1, WHITE))

\* <<x, y>> of a set_pixel call: left of the rows, the last pixel of the
\* first row, right of it, above the first row, below the last
PixelArgs(c) ==
    {<<-1, c.height - 1>>, <<c.width - 1, 0>>, <<c.width, 0>>, <<0, -1>>, <<0, c.height>>}

PngIdle ==
    /\ canvas = NewCanvas(0, 0, WHITE)
    /\ pixelCall = None
    /\ textCall = None
    /\ drawn = <<>>
    /\ png = <<>>
    /\ disk = None
    /\ outcome = "idle"

PngInit ==
    /\ \E w \in 1..MaxW, h \in 1..MaxH : canvas = NewCanvas(w, h, WHITE)
    /\ pixelCall = None
    /\ textCall = None
    /\ drawn = <<>>
    /\ png = <<>>
    /\ disk \in {None, Some(OldFile)}
    /\ outcome = ""

\* Canvas.set_pixel, called on a new canvas as _fallback_pie does
SetPixel ==
    /\ outcome = "" /\ drawn = <<>>
    /\ \E a \in PixelArgs(canvas) :
          /\ canvas' = set_pixel(canvas, a[1], a[2], INCOME_RGB)
          /\ pixelCall' = Some(<<a[1], a[2], INCOME_RGB>>)
    /\ drawn' = Append(drawn, "pixel")
    /\ UNCHANGED <<png, disk, outcome, textCall>>
    /\ UNCHANGED notPng

DrawLine ==
    /\ outcome = "" /\ MayDraw("line")
    /\ \E a \in LineArgs : canvas' = draw_line(canvas, a[1], a[2], a[3], a[4], AXIS_RGB)
    /\ drawn' = Append(drawn, "line")
    /\ UNCHANGED <<png, disk, outcome, pixelCall, textCall>>
    /\ UNCHANGED notPng

DrawRectFill ==
    /\ outcome = "" /\ MayDraw("fill")
    /\ \E a \in FillArgs :
          canvas' = draw_rect(canvas, a[1], a[2], a[3], a[4], SPENDING_RGB, TRUE)
    /\ drawn' = Append(drawn, "fill")
    /\ UNCHANGED <<png, disk, outcome, pixelCall, textCall>>
    /\ UNCHANGED notPng

DrawRectOutline ==
    /\ outcome = "" /\ MayDraw("outline")
    /\ \E a \in OutlineArgs :
          canvas' = draw_rect(canvas, a[1], a[2], a[3], a[4], OUTLINE_RGB, FALSE)
    /\ drawn' = Append(drawn, "outline")
    /\ UNCHANGED <<png, disk, outcome, pixelCall, textCall>>
    /\ UNCHANGED notPng

DrawText ==
    /\ outcome = "" /\ MayDraw("text")
    /\ \E a \in TextArgs :
          /\ canvas' = draw_text(canvas, a[1], a[2], a[3], TEXT_RGB, a[4])
          /\ textCall' = Some(a)
    /\ drawn' = Append(drawn, "text")
    /\ UNCHANGED <<png, disk, outcome, pixelCall>>
    /\ UNCHANGED notPng

\* path.write_bytes(png): open(path, "wb") creates or truncates the file,
\* then one write call, then close.  The call can fail before the file is
\* opened, or in the write after the truncation with some prefix persisted.
WriteBytes(bytes) ==
    \/ /\ outcome' = "ok"
       /\ disk' = Some(bytes)
    \/ /\ outcome' = "open_error"
       /\ disk' = disk
    \/ /\ outcome' = "write_error"
       /\ \E k \in {0, Len(bytes) \div 2} : disk' = Some(SubSeq(bytes, 1, k))

SavePng ==
    /\ outcome = ""
    /\ \/ /\ png' = save_png_bytes(canvas)
          /\ WriteBytes(save_png_bytes(canvas))
       \/ \* zlib.compress raises: nothing was assembled, nothing written
          /\ png' = <<>>
          /\ outcome' = "compress_error"
          /\ disk' = disk
    /\ UNCHANGED <<canvas, drawn, pixelCall, textCall>>
    /\ UNCHANGED notPng

PngNext == SetPixel \/ DrawLine \/ DrawRectFill \/ DrawRectOutline \/ DrawText \/ SavePng

(***************************************************************************)
(* charts._format_amount: f"{value:.2f}".rstrip("0").rstrip("."), on a      *)
(* value in cents; a text is a sequence of one-character strings.           *)
(***************************************************************************)
DigitChars == <<"0", "1", "2", "3", "4", "5", "6", "7", "8", "9">>

RECURSIVE Digits(_)
Digits(n) ==
    IF n < 10 THEN <<DigitChars[n + 1]>>
    ELSE Append(Digits(n \div 10), DigitChars[(n % 10) + 1])

\* f"{value:.2f}"
Fixed2(cents) ==
    (IF cents < 0 THEN <<"-">> ELSE <<>>)
    \o Digits(Abs(cents) \div 100)
    \o <<".", DigitChars[((Abs(cents) \div 10) % 10) + 1], DigitChars[(Abs(cents) % 10) + 1]>>

RECURSIVE rstrip(_, _)
rstrip(s, ch) ==
    IF s # <<>> /\ s[Len(s)] = ch THEN rstrip(SubSeq(s, 1, Len(s) - 1), ch) ELSE s

format_amount(cents) == rstrip(rstrip(Fixed2(cents), "0"), ".")

(***************************************************************************)
(* charts._fallback_pie.  The ratio income / total is kept as the pair     *)
(* <<numerator, denominator>>.  The float arithmetic of the code is        *)
(* modelled exactly for the ratios whose wedge boundary has an algebraic    *)
(* slope: every ratio up to 1/2, and 7/12, 5/8, 2/3, 3/4, 5/6, 7/8, 11/12   *)
(* and 1; the label positions need the ratio to be a multiple of 1/24.      *)
(***************************************************************************)
pie_cx(c) == (c.width \div 2) - 80

pie_cy(c) == c.height \div 2

pie_radius(c) == Min2(c.width, c.height) \div 3

pie_ratio(inc, spend) ==
    IF inc + spend <= 0 THEN <<1, 2>> ELSE <<inc, inc + spend>>

\* the ratio in 24ths of a turn
Turn24(ratio) == (24 * ratio[1]) \div ratio[2]

\* cot of the angle 2*pi*(1 - k/24) as <<sign, n, d>>: sign * sqrt(n / d)
WedgeCot ==
    (14 :> <<-1, 3, 1>>) @@ (15 :> <<-1, 1, 1>>) @@ (16 :> <<-1, 1, 3>>)
    @@ (18 :> <<1, 0, 1>>)
    @@ (20 :> <<1, 1, 3>>) @@ (21 :> <<1, 1, 1>>) @@ (22 :> <<1, 3, 1>>)

\* (math.atan2(dy, dx) + 2*pi) / (2*pi) <= ratio.  atan2 lies in (-pi, pi],
\* so the left side lies in (0.5, 1.5]: it is 1.0 on the positive x axis and
\* at the centre, above 1.0 below the centre line (dy > 0), and between 0.5
\* and 1.0 above it (dy < 0), where it falls as the direction turns from the
\* positive to the negative x axis.
angle_le_ratio(dy, dx, ratio) ==
    IF 2 * ratio[1] <= ratio[2] THEN FALSE
    ELSE IF dy > 0 THEN FALSE
    ELSE IF dy = 0 THEN dx >= 0 /\ ratio[1] >= ratio[2]
    ELSE IF ratio[1] >= ratio[2] THEN TRUE
    ELSE LET t == WedgeCot[Turn24(ratio)]
             a == dx
             b == -dy
         IN  IF t[1] > 0
             THEN a <= 0 \/ t[3] * a * a <= t[2] * b * b
             ELSE a < 0 /\ t[3] * a * a >= t[2] * b * b

\* the two nested loops over the bounding square of the disc
pie_disc(c, ratio) ==
    LET cx == pie_cx(c)
        cy == pie_cy(c)
        radius == pie_radius(c)
    IN  [c EXCEPT !.pixels = AsList(
            [i \in 1..(c.width * c.height) |->
                LET dx == ((i - 1) % c.width) - cx
                    dy == ((i - 1) \div c.width) - cy
                IN  IF /\ Abs(dx) <= radius /\ Abs(dy) <= radius
                       /\ dx * dx + dy * dy <= radius * radius
                    THEN IF angle_le_ratio(dy, dx, ratio)
                         THEN INCOME_RGB ELSE SPENDING_RGB
                    ELSE c.pixels[i]])]

\* 100000 * cos(2*pi*j/48), j = 0..47, at index j + 1
COS_E5 ==
    <<100000, 99144, 96593, 92388, 86603, 79335, 70711, 60876, 50000, 38268,
      25882, 13053, 0, -13053, -25882, -38268, -50000, -60876, -70711, -79335,
      -86603, -92388, -96593, -99144, -100000, -99144, -96593, -92388, -86603,
      -79335, -70711, -60876, -50000, -38268, -25882, -13053, 0, 13053, 25882,
      38268, 50000, 60876, 70711, 79335, 86603, 92388, 96593, 99144>>

CosE5(j) == COS_E5[(j % 48) + 1]

SinE5(j) == COS_E5[((j + 36) % 48) + 1]

\* int(): truncation towards zero of n / d, d > 0
TruncDiv(n, d) == IF n >= 0 THEN n \div d ELSE -((-n) \div d)

\* int(centre + trig * radius * 0.55), trig given times 100000.  The floats
\* math.cos(pi/2) and math.cos(3*pi/2) are not 0 but below 2e-16 in size; added
\* to a centre of 64 or more (radius below 70) they leave it as it is.
label_pos(centre, trigE5, radius) ==
    TruncDiv(centre * 2000000 + trigE5 * radius * 11, 2000000)

\* the value labels drawn after the loops
pie_labels(c, inc, spend) ==
    LET cx == pie_cx(c)
        cy == pie_cy(c)
        radius == pie_radius(c)
        ratio == pie_ratio(inc, spend)
        k == Turn24(ratio)
        \* ratio >= 0.08
        a == IF 25 * ratio[1] >= 2 * ratio[2]
             THEN draw_text(c, label_pos(cx, CosE5(k), radius),
                            label_pos(cy, SinE5(k), radius),
                            format_amount(inc), TEXT_RGB, 2)
             ELSE c
    \* (1.0 - ratio) >= 0.08
    IN  IF 25 * (ratio[2] - ratio[1]) >= 2 * ratio[2]
        THEN draw_text(a, label_pos(cx, CosE5(24 + k), radius),
                       label_pos(cy, SinE5(24 + k), radius),
                       format_amount(spend), TEXT_RGB, 2)
        ELSE a

fallback_pie(c, inc, spend) == pie_labels(pie_disc(c, pie_ratio(inc, spend)), inc, spend)

(***************************************************************************)
(* The proportion chart of one month in the fallback path:                  *)
(* pie = Canvas(...); _fallback_pie(pie, total_income, total_spending).     *)
(* The canvas is PieW x PieH here, smaller than the 380 x 210 of            *)
(* generate_monthly_charts and wide enough for the whole disc: the centre   *)
(* is at (PieW // 2 - 80, PieH // 2), the radius is PieH // 3.              *)
(***************************************************************************)
PieW == 290

PieH == 45

\* the ratios in 24ths the model of the float arithmetic is exact for
PieTurns == (0..12) \cup {14, 15, 16, 18, 20, 21, 22, 24}

\* the amount, in cents, of one 24th of the month's total
PieUnits == {1, 100, 12500}

\* <<total_income, total_spending>> of summarize_month, in cents
PieAmounts ==
    {<<0, 0>>} \cup {<<k * u, (24 - k) * u>> : k \in PieTurns, u \in PieUnits}

PieInit ==
    /\ pie = NewCanvas(PieW, PieH, WHITE)
    /\ pieIn \in PieAmounts
    /\ ppc = "canvas"

PieIdle ==
    /\ pie = NewCanvas(0, 0, WHITE)
    /\ pieIn = <<0, 0>>
    /\ ppc = "idle"

\* _fallback_pie, lines 249-266: the wedges
PaintWedges ==
    /\ ppc = "canvas"
    /\ pie' = pie_disc(pie, pie_ratio(pieIn[1], pieIn[2]))
    /\ ppc' = "wedges"
    /\ UNCHANGED pieIn
    /\ UNCHANGED notPie

\* _fallback_pie, lines 268-274: the labels, then the function returns
DrawLabels ==
    /\ ppc = "wedges"
    /\ pie' = pie_labels(pie, pieIn[1], pieIn[2])
    /\ ppc' = "drawn"
    /\ UNCHANGED pieIn
    /\ UNCHANGED notPie

PieNext == PaintWedges \/ DrawLabels

(***************************************************************************)
(* exporter.group_by_month and charts.generate_monthly_charts               *)
(***************************************************************************)
MonthLess(a, b) == a[1] < b[1] \/ (a[1] = b[1] /\ a[2] < b[2])

RECURSIVE SortedMonths(_)
SortedMonths(S) ==
    IF S = {} THEN <<>>
    ELSE LET m == CHOOSE x \in S : \A y \in S \ {x} : MonthLess(x, y)
         IN  <<m>> \o SortedMonths(S \ {m})

\* dict(sorted(grouped.items())): <<month key, records of the month in order>>
group_by_month(recs) ==
    LET keys == SortedMonths({month_key(recs[i].date_iso) : i \in 1..Len(recs)})
    IN  [j \in 1..Len(keys) |->
            <<keys[j], SelectSeq(recs, LAMBDA r : month_key(r.date_iso) = keys[j])>>]

chart_file_same_stem_bug(month, stem) ==
    [month |-> month, stem |-> "income_vs_spending", ext |-> "png"]

\* charts_dir / f"{month}_{stem}.png"
chart_file(month, stem) == [month |-> month, stem |-> stem, ext |-> "png"]

\* if _HAS_MATPLOTLIB: ... else: ...
UseFallbackAlwaysBug(flag) == TRUE

UseFallback(flag) == ~flag

MaxGenRecs == 2

GenDates == {<<2023, 12, 31>>, <<2024, 1, 5>>, <<2024, 2, 10>>}

GenAmounts == {<<None, Some(100000)>>, <<Some(40000), Some(0)>>, <<None, None>>}

GenRows ==
    {[date_iso |-> d, withdrawn |-> a[1], paid_in |-> a[2]] : d \in GenDates, a \in GenAmounts}

BAR_MARGIN == 44

BAR_HEIGHT == 230

\* generate_monthly_charts: width = max(600, 30 * len(days))
bar_canvas_width(ndays) == Max2(600, 30 * ndays)

\* pipeline.sync_only: the two chart files it looks up for a month
sync_chart_files(month) ==
    [pie |-> [month |-> month, stem |-> "income_vs_spending", ext |-> "png"],
     bar |-> [month |-> month, stem |-> "daily_income_spending", ext |-> "png"]]

PIE_WIDTH == 380

PIE_HEIGHT == 210

\* Canvas(width, height), before any drawing or encoding
NewSurface(month, chart, width, height) ==
    [month |-> month, chart |-> chart, width |-> width, height |-> height,
     drawn |-> 0, saved |-> 0]

reuse_pie_canvas_bug(surfs, loc) == loc.pie

\* bar = Canvas(width, 230): a new object
fresh_canvas(surfs, loc) == Len(surfs) + 1

\* how a save_png call may end: zlib.compress or Path.write_bytes may raise
SaveOutcomes == {"ok", "compress_error", "open_error", "write_error"}

GenInit ==
    /\ hasMatplotlib \in BOOLEAN
    /\ \E n \in 1..MaxGenRecs : allRecords \in [1..n -> GenRows]
    /\ groups = <<>>
    /\ gpc = "call"
    /\ calls = <<>>
    /\ files = {}
    /\ outputs = <<>>
    /\ chartsDir \in BOOLEAN
    /\ surfaces = <<>>
    /\ locals = [pie |-> 0, bar |-> 0]
    /\ raised = None

GenIdle ==
    /\ hasMatplotlib = FALSE
    /\ allRecords = <<>>
    /\ groups = <<>>
    /\ gpc = "idle"
    /\ calls = <<>>
    /\ files = {}
    /\ outputs = <<>>
    /\ chartsDir = FALSE
    /\ surfaces = <<>>
    /\ locals = [pie |-> 0, bar |-> 0]
    /\ raised = None

CurMonth == groups[1][1]

CurRecords == groups[1][2]

GenStep(from, to, fn) ==
    /\ gpc = from
    /\ gpc' = to
    /\ calls' = Append(calls, <<fn, CurMonth>>)

\* charts_dir.mkdir(...); for month, month_records in group_by_month(records).items()
GenerateStart ==
    /\ gpc = "call"
    /\ chartsDir' = TRUE
    /\ groups' = group_by_month(allRecords)
    /\ gpc' = "month"
    /\ UNCHANGED <<hasMatplotlib, allRecords, calls, files, outputs, surfaces, locals, raised>>
    /\ UNCHANGED notGen

MonthOutput ==
    [pie |-> chart_file(CurMonth, "income_vs_spending"),
     bar |-> chart_file(CurMonth, "daily_income_spending"),
     summary |-> summarize_month(CurRecords)]

\* the rich-graphics branch of one month
RenderWithMatplotlib ==
    /\ groups # <<>> /\ hasMatplotlib
    /\ GenStep("month", "month", "_generate_with_matplotlib")
    /\ files' = files \cup {MonthOutput.pie, MonthOutput.bar}
    /\ outputs' = Append(outputs, <<CurMonth, MonthOutput>>)
    /\ groups' = Tail(groups)
    /\ UNCHANGED <<hasMatplotlib, allRecords, chartsDir, surfaces, locals, raised>>
    /\ UNCHANGED notGen

\* one drawing function called on the canvas a local variable refers to
DrawOn(ref) == surfaces' = [surfaces EXCEPT ![ref].drawn = @ + 1]

\* save_png(path, canvas), lines 103-114: the canvas is encoded and the file
\* written, or an exception leaves generate_monthly_charts, which catches
\* nothing; a failing write leaves the file created
SaveChart(from, to, path, ref) ==
    \E o \in SaveOutcomes :
        /\ GenStep(from, IF o = "ok" THEN to ELSE "raised", "save_png")
        /\ surfaces' = [surfaces EXCEPT ![ref].saved = @ + 1]
        /\ files' = IF o \in {"ok", "write_error"} THEN files \cup {path} ELSE files
        /\ raised' = IF o = "ok" THEN None ELSE Some(<<o, path>>)
        /\ IF o = "ok" /\ to = "month"
           THEN /\ outputs' = Append(outputs, <<CurMonth, MonthOutput>>)
                /\ groups' = Tail(groups)
           ELSE UNCHANGED <<outputs, groups>>

\* the fallback branch of one month, call by call
NewPieCanvas ==
    /\ groups # <<>> /\ UseFallback(hasMatplotlib)
    /\ GenStep("month", "pie_canvas", "Canvas")
    /\ surfaces' = Append(surfaces, NewSurface(CurMonth, "pie", PIE_WIDTH, PIE_HEIGHT))
    /\ locals' = [locals EXCEPT !.pie = Len(surfaces) + 1]
    /\ UNCHANGED <<hasMatplotlib, allRecords, groups, files, outputs, chartsDir, raised>>
    /\ UNCHANGED notGen

DrawPie ==
    /\ GenStep("pie_canvas", "pie_drawn", "_fallback_pie")
    /\ DrawOn(locals.pie)
    /\ UNCHANGED <<hasMatplotlib, allRecords, groups, files, outputs, chartsDir, locals, raised>>
    /\ UNCHANGED notGen

SavePie ==
    /\ SaveChart("pie_drawn", "pie_saved", MonthOutput.pie, locals.pie)
    /\ UNCHANGED <<hasMatplotlib, allRecords, chartsDir, locals>>
    /\ UNCHANGED notGen

NewBarCanvas ==
    /\ GenStep("pie_saved", "bar_canvas", "Canvas")
    /\ LET ref == fresh_canvas(surfaces, locals)
           width == bar_canvas_width(Len(month_days(CurRecords)))
       IN  /\ surfaces' = IF ref > Len(surfaces)
                          THEN Append(surfaces, NewSurface(CurMonth, "bar", width, BAR_HEIGHT))
                          ELSE surfaces
           /\ locals' = [locals EXCEPT !.bar = ref]
    /\ UNCHANGED <<hasMatplotlib, allRecords, groups, files, outputs, chartsDir, raised>>
    /\ UNCHANGED notGen

DrawBars ==
    /\ GenStep("bar_canvas", "bar_drawn", "_fallback_bars")
    /\ DrawOn(locals.bar)
    /\ UNCHANGED <<hasMatplotlib, allRecords, groups, files, outputs, chartsDir, locals, raised>>
    /\ UNCHANGED notGen

SaveBars ==
    /\ SaveChart("bar_drawn", "month", MonthOutput.bar, locals.bar)
    /\ UNCHANGED <<hasMatplotlib, allRecords, chartsDir, locals>>
    /\ UNCHANGED notGen

\* return outputs
GenerateReturn ==
    /\ gpc = "month" /\ groups = <<>>
    /\ gpc' = "done"
    /\ UNCHANGED <<hasMatplotlib, allRecords, groups, calls, files, outputs,
                   chartsDir, surfaces, locals, raised>>
    /\ UNCHANGED notGen

GenNext ==
    \/ GenerateStart \/ RenderWithMatplotlib
    \/ NewPieCanvas \/ DrawPie \/ SavePie \/ NewBarCanvas \/ DrawBars \/ SaveBars
    \/ GenerateReturn

\* _fallback_bars: totals = [income[i] + spending[i] for i in range(len(days))]
bar_totals(inc, spend, ds) == [i \in 1..Len(ds) |-> inc[i] + spend[i]]

(***************************************************************************)
(* charts._fallback_bars.  The canvas of the daily chart is kept as the     *)
(* list of the drawing calls made on it: [day, op, args, color], day being  *)
(* the loop index i (-1 for the two axes) and args                          *)
(*   "line": <<x1, y1, x2, y2>>     "rect": <<x, y, w, h, fill>>            *)
(*   "text": <<x, y, text, scale>>                                          *)
(* Amounts are in cents (the values of _daily_series).                      *)
(***************************************************************************)
DrawOp(day, op, args, color) == [day |-> day, op |-> op, args |-> args, color |-> color]

\* any(totals)
AnyTruthy(seq) == \E i \in 1..Len(seq) : seq[i] # 0

RECURSIVE MaxOf(_, _)
MaxOf(seq, i) ==
    IF i = Len(seq) THEN seq[i] ELSE Max2(seq[i], MaxOf(seq, i + 1))

\* vmax = max(totals) if any(totals) else 1.0, in cents
bar_vmax(totals) == IF AnyTruthy(totals) THEN MaxOf(totals, 1) ELSE 100

plot_width(width) == width - 2 * BAR_MARGIN

plot_height(height) == height - 2 * BAR_MARGIN

\* bucket_w = max(3, int(plot_w / len(days)))
bucket_width(width, ndays) == Max2(3, TruncDiv(plot_width(width), ndays))

\* bar_w = max(2, min(14, bucket_w - 1))
bar_width(bucket_w) == Max2(2, Min2(14, bucket_w - 1))

bar_x0(i, bucket_w) == BAR_MARGIN + i * bucket_w

bar_left_of_uncentered_bug(x0, bucket_w, bar_w) == x0

\* bar_left = x0 + max(0, (bucket_w - bar_w) // 2)
bar_left_of(x0, bucket_w, bar_w) == x0 + Max2(0, (bucket_w - bar_w) \div 2)

\* total_h = max(1, int((total / vmax) * plot_h))
bar_total_h(total, vmax, plot_h) == Max2(1, TruncDiv(total * plot_h, vmax))

\* spending_h = int((spending[i] / total) * total_h) if total > 0 else 0
bar_spending_h(spend, total, total_h) ==
    IF total > 0 THEN TruncDiv(spend * total_h, total) ELSE 0

\* day[8:10]
day_label(date_iso) ==
    <<DigitChars[(date_iso[3] \div 10) + 1], DigitChars[(date_iso[3] % 10) + 1]>>

\* the vertical layout of the bar of day i (i from 0): heights and tops
bar_geometry(width, height, series, i) ==
    LET totals == bar_totals(series.income, series.spending, series.days)
        total == totals[i + 1]
        total_h == bar_total_h(total, bar_vmax(totals), plot_height(height))
        spending_h == bar_spending_h(series.spending[i + 1], total, total_h)
        income_h == total_h - spending_h
        spend_top == height - BAR_MARGIN - spending_h
        bucket_w == bucket_width(width, Len(series.days))
        bar_w == bar_width(bucket_w)
        x0 == bar_x0(i, bucket_w)
    IN  [total |-> total, total_h |-> total_h,
         spending_h |-> spending_h, income_h |-> income_h,
         spend_top |-> spend_top, income_top |-> spend_top - income_h,
         bucket_w |-> bucket_w, bar_w |-> bar_w,
         x0 |-> x0, bar_left |-> bar_left_of(x0, bucket_w, bar_w)]

\* lines 308-312: the two segments and the outline
bar_rects(height, series, i, g) ==
    (IF g.spending_h > 0
     THEN <<DrawOp(i, "rect", <<g.bar_left, g.spend_top, g.bar_w, g.spending_h, TRUE>>, SPENDING_RGB)>>
     ELSE <<>>)
    \o (IF g.income_h > 0
        THEN <<DrawOp(i, "rect", <<g.bar_left, g.income_top, g.bar_w, g.income_h, TRUE>>, INCOME_RGB)>>
        ELSE <<>>)
    \o <<DrawOp(i, "rect", <<g.bar_left, g.income_top, g.bar_w, g.total_h, FALSE>>, OUTLINE_RGB)>>

income_on_top_negated_bug(g) == g.income_top >= g.spend_top

\* line 317: if income_top < spend_top
income_on_top(g) == g.income_top < g.spend_top

BarLabel(i, x, y, cents) ==
    DrawOp(i, "text", <<x, y, format_amount(cents), 1>>, TEXT_RGB)

\* lines 314-327: the numeric labels
bar_labels(series, i, g) ==
    IF g.bucket_w < 12 THEN <<>>
    ELSE LET label_top == Max2(BAR_MARGIN, g.income_top - 8)
             inc == series.income[i + 1]
             spend == series.spending[i + 1]
         IN  IF g.income_h > 0 /\ g.spending_h > 0
             THEN IF income_on_top(g)
                  THEN <<BarLabel(i, g.bar_left - 1, label_top, inc),
                         BarLabel(i, g.bar_left - 1, label_top + 8, spend)>>
                  ELSE <<BarLabel(i, g.bar_left - 1, label_top, spend),
                         BarLabel(i, g.bar_left - 1, label_top + 8, inc)>>
             ELSE IF g.income_h > 0
             THEN <<BarLabel(i, g.bar_left - 1, label_top, inc)>>
             ELSE IF g.spending_h > 0
             THEN <<BarLabel(i, g.bar_left - 1, label_top, spend)>>
             ELSE <<>>

\* lines 330-331: the tick and the day label
bar_tick(height, series, i, g) ==
    <<DrawOp(i, "line", <<g.x0, height - BAR_MARGIN, g.x0, height - BAR_MARGIN + 4>>, AXIS_RGB),
      DrawOp(i, "text", <<g.x0 - 4, height - BAR_MARGIN + 7, day_label(series.days[i + 1]), 1>>, TEXT_RGB)>>

bar_day_ops_tick_in_if_bug(width, height, series, i) ==
    LET g == bar_geometry(width, height, series, i)
    IN  IF g.total > 0
        THEN bar_rects(height, series, i, g) \o bar_labels(series, i, g)
             \o bar_tick(height, series, i, g)
        ELSE <<>>

\* one pass of `for i, day in enumerate(days)`
bar_day_ops(width, height, series, i) ==
    LET g == bar_geometry(width, height, series, i)
    IN  (IF g.total > 0
         THEN bar_rects(height, series, i, g) \o bar_labels(series, i, g)
         ELSE <<>>)
        \o bar_tick(height, series, i, g)

\* lines 287-288: the two axes
bar_axes(width, height) ==
    <<DrawOp(-1, "line", <<BAR_MARGIN, height - BAR_MARGIN, width - BAR_MARGIN, height - BAR_MARGIN>>, AXIS_RGB),
      DrawOp(-1, "line", <<BAR_MARGIN, BAR_MARGIN, BAR_MARGIN, height - BAR_MARGIN>>, AXIS_RGB)>>

(***************************************************************************)
(* The daily chart of _generate_with_matplotlib (lines 194-235), as the     *)
(* calls made on the axes.  Heights are in cents; the y of a text is in     *)
(* 1/100 of a cent (base_y = total + ymax * 0.01, step = ymax * 0.03).      *)
(*   "bar":   <<i, bottom, height>>     "text": <<i, y, text>>              *)
(*   "xtick": <<i, label>>                                                  *)
(***************************************************************************)
\* f"{value:.2f}"
mpl_label(i, y, cents) == DrawOp(i, "text", <<i, y, Fixed2(cents)>>, TEXT_RGB)

mpl_day_ops(series, i) ==
    LET inc == series.income[i + 1]
        spend == series.spending[i + 1]
        totals == bar_totals(series.spending, series.income, series.days)
        total == totals[i + 1]
        ymax == bar_vmax(totals)
        base_y == 100 * total + ymax
        step == 3 * ymax
    IN  IF total <= 0 THEN <<>>
        ELSE IF inc > 0 /\ spend > 0
        THEN <<mpl_label(i, base_y + step, spend), mpl_label(i, base_y, inc)>>
        ELSE IF spend > 0 THEN <<mpl_label(i, base_y, spend)>>
        ELSE IF inc > 0 THEN <<mpl_label(i, base_y, inc)>>
        ELSE <<>>

\* the concatenation of a sequence of sequences
RECURSIVE Flatten(_)
Flatten(seqs) == IF seqs = <<>> THEN <<>> ELSE Head(seqs) \o Flatten(Tail(seqs))

mpl_bar_ops(series) ==
    LET n == Len(series.days)
        IncomeBar(i) == <<DrawOp(i, "bar", <<i, 0, series.income[i + 1]>>, INCOME_RGB)>>
        SpendingBar(i) ==
            <<DrawOp(i, "bar", <<i, series.income[i + 1], series.spending[i + 1]>>, SPENDING_RGB)>>
        Labels(i) == mpl_day_ops(series, i)
        Tick(i) == <<DrawOp(i, "xtick", <<i, day_label(series.days[i + 1])>>, TEXT_RGB)>>
    IN  Flatten([i \in 1..n |-> IncomeBar(i - 1)])
        \o Flatten([i \in 1..n |-> SpendingBar(i - 1)])
        \o Flatten([i \in 1..n |-> Labels(i - 1)])
        \o Flatten([i \in 1..n |-> Tick(i - 1)])

(***************************************************************************)
(* Inputs of the daily chart: a month and what its days hold.               *)
(***************************************************************************)
BarMonths == {<<2023, 2>>, <<2024, 2>>, <<2024, 4>>, <<2024, 12>>}

BarProfiles == {"both", "skewed", "zero", "sparse", "tiny", "equal", "refund"}

\* the <<withdrawn, paid_in>> rows of day d, in mills; parse_amount keeps a
\* leading minus sign, so a withdrawn cell "-50.00" is -50000 mills
ProfileRows(profile, d) ==
    CASE profile = "both"   -> <<<<Some((((d * 7) % 50) + 1) * 1000), Some((((d * 3) % 40) + 1) * 2500)>>>>
      [] profile = "skewed" -> <<<<Some(10), Some(100000)>>>>
      [] profile = "zero"   -> <<<<None, Some(0)>>>>
      [] profile = "sparse" -> IF d = 1 THEN <<<<None, Some(100000)>>>>
                               ELSE IF d = 15 THEN <<<<Some(40000), Some(60000)>>, <<Some(12340), None>>>>
                               ELSE <<>>
      [] profile = "tiny"   -> IF d = 2 THEN <<<<Some(500000), Some(900000)>>>>
                               ELSE <<<<Some(20), Some(30)>>>>
      [] profile = "equal"  -> <<<<Some(50000), Some(50000)>>>>
      [] profile = "refund" -> IF d = 3 THEN <<<<Some(-50000), Some(100000)>>>>
                               ELSE <<<<Some(30000), Some(20000)>>>>

BarRecords(month, profile) ==
    LET Rows(d0) ==
            LET rows == ProfileRows(profile, d0 + 1)
            IN  [k \in 1..Len(rows) |->
                    [date_iso |-> <<month[1], month[2], d0 + 1>>,
                     withdrawn |-> rows[k][1], paid_in |-> rows[k][2]]]
    IN  Flatten([d \in 1..DaysInMonth(month[1], month[2]) |-> Rows(d - 1)])

\* the canvas generate_monthly_charts creates, and two narrower ones
BarWidths(ndays) == {bar_canvas_width(ndays), 130, 400}

BarInit ==
    /\ \E m \in BarMonths : \E p \in BarProfiles :
          /\ barRecs = BarRecords(m, p)
          /\ barW \in BarWidths(DaysInMonth(m[1], m[2]))
    /\ barBackend \in {"fallback", "matplotlib"}
    /\ barSeries = [days |-> <<>>, income |-> <<>>, spending |-> <<>>]
    /\ bpc = "canvas"
    /\ bi = 0
    /\ barOps = <<>>

BarIdle ==
    /\ barRecs = <<>>
    /\ barW = 0
    /\ barBackend = "fallback"
    /\ barSeries = [days |-> <<>>, income |-> <<>>, spending |-> <<>>]
    /\ bpc = "idle"
    /\ bi = 0
    /\ barOps = <<>>

\* _fallback_bars, lines 278-294: the series and the axes
BarsStart ==
    /\ bpc = "canvas" /\ barBackend = "fallback"
    /\ barSeries' = daily_series(barRecs)
    /\ barOps' = bar_axes(barW, BAR_HEIGHT)
    /\ bpc' = "days"
    /\ UNCHANGED <<barRecs, barW, barBackend, bi>>
    /\ UNCHANGED notBar

\* _fallback_bars, lines 296-331: one day
BarsDay ==
    /\ bpc = "days" /\ bi < Len(barSeries.days)
    /\ barOps' = barOps \o bar_day_ops(barW, BAR_HEIGHT, barSeries, bi)
    /\ bi' = bi + 1
    /\ UNCHANGED <<barRecs, barW, barBackend, barSeries, bpc>>
    /\ UNCHANGED notBar

\* _fallback_bars returns
BarsReturn ==
    /\ bpc = "days" /\ bi = Len(barSeries.days)
    /\ bpc' = "done"
    /\ UNCHANGED <<barRecs, barW, barBackend, barSeries, bi, barOps>>
    /\ UNCHANGED notBar

\* _generate_with_matplotlib, lines 194-235
MatplotlibBars ==
    /\ bpc = "canvas" /\ barBackend = "matplotlib"
    /\ barSeries' = daily_series(barRecs)
    /\ barOps' = mpl_bar_ops(daily_series(barRecs))
    /\ bi' = Len(daily_series(barRecs).days)
    /\ bpc' = "done"
    /\ UNCHANGED <<barRecs, barW, barBackend>>
    /\ UNCHANGED notBar

BarNext == BarsStart \/ BarsDay \/ BarsReturn \/ MatplotlibBars

(***************************************************************************)
(* Two renders of different months run by an enclosing scheduler with no    *)
(* synchronization: each is one pass of the loop of generate_monthly_charts *)
(* (lines 340-361).  A chart is named <<month, stem>>; the content of a     *)
(* canvas, a figure or a file is the set of the charts drawn on it.  The    *)
(* fallback branch works on local Canvas objects.  The rich branch goes     *)
(* through the module-level pyplot interface: plt.subplots() picks the next *)
(* free figure number, then takes the figure registered under that number,  *)
(* creating and registering one when there is none; plt.close(fig) removes  *)
(* fig from the registry.  The registry is one per process, and the two     *)
(* steps of plt.subplots are not atomic.                                    *)
(***************************************************************************)
Renders == {1, 2}

RenderMonth == <<<<2024, 1>>, <<2024, 2>>>>

RenderDates == <<<<2024, 1, 5>>, <<2024, 2, 10>>>>

Stems == [pie |-> "income_vs_spending", bar |-> "daily_income_spending"]

ChartOf(t, chart) == <<RenderMonth[t], Stems[chart]>>

ChartPath(t, chart) == chart_file(RenderMonth[t], Stems[chart])

At(chart, step) == [chart |-> chart, step |-> step]

\* what follows the last statement of a chart
AfterChart(chart) == IF chart = "pie" THEN At("bar", "start") ELSE At("bar", "return")

WriteFile(path, content) ==
    {f \in cFiles : f[1] # path} \cup {<<path, content>>}

ConcInit ==
    /\ cBackend \in {"fallback", "matplotlib"}
    /\ cRecs \in [Renders -> GenAmounts]
    /\ cpc = [t \in Renders |-> At("pie", "start")]
    /\ cCanvas = [t \in Renders |-> {}]
    /\ cNum = [t \in Renders |-> 0]
    /\ cFig = [t \in Renders |-> 0]
    /\ figObjs = <<>>
    /\ pyplotFigs = {}
    /\ cFiles = {}
    /\ cOut = [t \in Renders |-> None]

ConcIdle ==
    /\ cBackend = "fallback"
    /\ cRecs = <<>>
    /\ cpc = <<>>
    /\ cCanvas = <<>>
    /\ cNum = <<>>
    /\ cFig = <<>>
    /\ figObjs = <<>>
    /\ pyplotFigs = {}
    /\ cFiles = {}
    /\ cOut = <<>>

RenderRecords(t) ==
    <<[date_iso |-> RenderDates[t], withdrawn |-> cRecs[t][1], paid_in |-> cRecs[t][2]]>>

\* pie = Canvas(380, 210) / bar = Canvas(width, 230)
CNewCanvas ==
    \E t \in Renders :
        /\ cBackend = "fallback" /\ cpc[t].step = "start"
        /\ cCanvas' = [cCanvas EXCEPT ![t] = {}]
        /\ cpc' = [cpc EXCEPT ![t].step = "draw"]
        /\ UNCHANGED <<cBackend, cRecs, cNum, cFig, figObjs, pyplotFigs, cFiles, cOut>>
        /\ UNCHANGED notConc

\* _fallback_pie(pie, ...) / _fallback_bars(bar, month_records)
CDraw ==
    \E t \in Renders :
        /\ cBackend = "fallback" /\ cpc[t].step = "draw"
        /\ cCanvas' = [cCanvas EXCEPT ![t] = @ \cup {ChartOf(t, cpc[t].chart)}]
        /\ cpc' = [cpc EXCEPT ![t].step = "save"]
        /\ UNCHANGED <<cBackend, cRecs, cNum, cFig, figObjs, pyplotFigs, cFiles, cOut>>
        /\ UNCHANGED notConc

\* save_png(pie_path, pie) / save_png(bar_path, bar)
CSavePng ==
    \E t \in Renders :
        /\ cBackend = "fallback" /\ cpc[t].step = "save"
        /\ cFiles' = WriteFile(ChartPath(t, cpc[t].chart), cCanvas[t])
        /\ cpc' = [cpc EXCEPT ![t] = AfterChart(cpc[t].chart)]
        /\ UNCHANGED <<cBackend, cRecs, cCanvas, cNum, cFig, figObjs, pyplotFigs, cOut>>
        /\ UNCHANGED notConc

\* plt.subplots(...), first half: the next free figure number
next_fig_num(registry) ==
    IF registry = {} THEN 1
    ELSE 1 + (CHOOSE n \in {r[1] : r \in registry} : \A r \in registry : r[1] <= n)

CSubplotsNum ==
    \E t \in Renders :
        /\ cBackend = "matplotlib" /\ cpc[t].step = "start"
        /\ cNum' = [cNum EXCEPT ![t] = next_fig_num(pyplotFigs)]
        /\ cpc' = [cpc EXCEPT ![t].step = "figure"]
        /\ UNCHANGED <<cBackend, cRecs, cCanvas, cFig, figObjs, pyplotFigs, cFiles, cOut>>
        /\ UNCHANGED notConc

\* plt.subplots(...), second half: the figure registered under the number,
\* or a new one, registered under it
CSubplotsFigure ==
    \E t \in Renders :
        /\ cBackend = "matplotlib" /\ cpc[t].step = "figure"
        /\ LET known == {r \in pyplotFigs : r[1] = cNum[t]}
           IN  IF known # {}
               THEN /\ cFig' = [cFig EXCEPT ![t] = (CHOOSE r \in known : TRUE)[2]]
                    /\ UNCHANGED <<figObjs, pyplotFigs>>
               ELSE /\ figObjs' = Append(figObjs, {})
                    /\ cFig' = [cFig EXCEPT ![t] = Len(figObjs) + 1]
                    /\ pyplotFigs' = pyplotFigs \cup {<<cNum[t], Len(figObjs) + 1>>}
        /\ cpc' = [cpc EXCEPT ![t].step = "draw"]
        /\ UNCHANGED <<cBackend, cRecs, cCanvas, cNum, cFiles, cOut>>
        /\ UNCHANGED notConc

\* ax.pie(...) ... fig.tight_layout() / ax.bar(...) ... fig.tight_layout()
CPlot ==
    \E t \in Renders :
        /\ cBackend = "matplotlib" /\ cpc[t].step = "draw"
        /\ figObjs' = [figObjs EXCEPT ![cFig[t]] = @ \cup {ChartOf(t, cpc[t].chart)}]
        /\ cpc' = [cpc EXCEPT ![t].step = "save"]
        /\ UNCHANGED <<cBackend, cRecs, cCanvas, cNum, cFig, pyplotFigs, cFiles, cOut>>
        /\ UNCHANGED notConc

\* fig.savefig(pie_path) / fig.savefig(bar_path)
CSavefig ==
    \E t \in Renders :
        /\ cBackend = "matplotlib" /\ cpc[t].step = "save"
        /\ cFiles' = WriteFile(ChartPath(t, cpc[t].chart), figObjs[cFig[t]])
        /\ cpc' = [cpc EXCEPT ![t].step = "close"]
        /\ UNCHANGED <<cBackend, cRecs, cCanvas, cNum, cFig, figObjs, pyplotFigs, cOut>>
        /\ UNCHANGED notConc

\* plt.close(fig)
CClose ==
    \E t \in Renders :
        /\ cBackend = "matplotlib" /\ cpc[t].step = "close"
        /\ pyplotFigs' = {r \in pyplotFigs : r[2] # cFig[t]}
        /\ cpc' = [cpc EXCEPT ![t] = AfterChart(cpc[t].chart)]
        /\ UNCHANGED <<cBackend, cRecs, cCanvas, cNum, cFig, figObjs, cFiles, cOut>>
        /\ UNCHANGED notConc

\* outputs[month] = {"pie": pie_path, "bar": bar_path, "summary": summary}
CReturn ==
    \E t \in Renders :
        /\ cpc[t].step = "return"
        /\ cOut' = [cOut EXCEPT ![t] =
                Some([pie |-> ChartPath(t, "pie"), bar |-> ChartPath(t, "bar"),
                      summary |-> summarize_month(RenderRecords(t))])]
        /\ cpc' = [cpc EXCEPT ![t].step = "done"]
        /\ UNCHANGED <<cBackend, cRecs, cCanvas, cNum, cFig, figObjs, pyplotFigs, cFiles>>
        /\ UNCHANGED notConc

ConcNext ==
    \/ CNewCanvas \/ CDraw \/ CSavePng
    \/ CSubplotsNum \/ CSubplotsFigure \/ CPlot \/ CSavefig \/ CClose
    \/ CReturn

(***************************************************************************)
(* Canvas.draw_line, one loop iteration at a time                          *)
(***************************************************************************)
MaxCoord == 3

LineSide == 3

Coords == (-MaxCoord)..MaxCoord

\* No line between points of Coords has more pixels than this; an iteration
\* past it is not taken, so that a loop that never breaks shows as a run
\* that never returns.
MaxIterations == 4 * MaxCoord + 4

LineInit ==
    \E x1 \in Coords, y1 \in Coords, x2 \in Coords, y2 \in Coords :
        lineRun = [pc |-> "call", x1 |-> x1, y1 |-> y1, x2 |-> x2, y2 |-> y2,
                   canvas |-> NewCanvas(LineSide, LineSide, WHITE),
                   L |-> <<>>, x |-> x1, y |-> y1, err |-> 0, visited |-> <<>>]

\* lines 54-60: everything before the loop
LineSetup ==
    /\ lineRun.pc = "call"
    /\ LET L == line_setup(lineRun.x1, lineRun.y1, lineRun.x2, lineRun.y2)
       IN  lineRun' = [lineRun EXCEPT !.pc = "loop", !.L = L, !.err = L.err]
    /\ UNCHANGED notLine

\* lines 61-70: one iteration: the pixel, the break test, the step
LineIterate ==
    /\ lineRun.pc = "loop"
    /\ Len(lineRun.visited) < MaxIterations
    /\ LET r  == lineRun
           c1 == set_pixel(r.canvas, r.x, r.y, AXIS_RGB)
           v1 == Append(r.visited, <<r.x, r.y>>)
           n  == line_step(r.x, r.y, r.err, r.L)
       IN  lineRun' =
               IF r.x = r.x2 /\ r.y = r.y2
               THEN [r EXCEPT !.pc = "done", !.canvas = c1, !.visited = v1]
               ELSE [r EXCEPT !.canvas = c1, !.visited = v1,
                              !.x = n.x, !.y = n.y, !.err = n.err]
    /\ UNCHANGED notLine

LineNext == LineSetup \/ LineIterate

(***************************************************************************)
(* mineru_runner.convert_folder                                            *)
(***************************************************************************)
\* A PDF of the input folder is the rank of its path in path order; the PDFs
\* 2k-1 and 2k lie in different subfolders and have the same stem k.  A
\* markdown file <<stem, k>> lies in output_root/stem and was made from PDF k
\* (k = 0: left there by an earlier run).
MaxPdfs == 3

PdfPaths == 1..MaxPdfs

\* pdf_path.stem
pdf_stem(pdf) == (pdf + 1) \div 2

\* sorted(...) of a set of paths
RECURSIVE SortedPaths(_)
SortedPaths(S) ==
    IF S = {} THEN <<>>
    ELSE LET least == CHOOSE p \in S : \A q \in S : p <= q
         IN  <<least>> \o SortedPaths(S \ {least})

\* sorted(...) of a set of markdown paths <<stem, k>>
RECURSIVE SortedMarkdowns(_)
SortedMarkdowns(S) ==
    IF S = {} THEN <<>>
    ELSE LET least == CHOOSE p \in S : \A q \in S :
                          p[1] < q[1] \/ (p[1] = q[1] /\ p[2] <= q[2])
         IN  <<least>> \o SortedMarkdowns(S \ {least})

discover_pdfs(folder) == SortedPaths(folder)

\* discover_markdowns(output_root / stem)
discover_markdowns(tree, stem) == SortedMarkdowns({m \in tree : m[1] = stem})

\* What one run of the MinerU command does: it cannot be started (OSError),
\* it exits with a non-zero code with or without having written a file, or
\* it exits with 0 with or without a markdown file.
MinerUOutcomes == {"oserror", "exit1", "exit1_partial", "exit0_none", "exit0_md"}

mineru_writes(pdf, exit) ==
    IF exit \in {"exit1_partial", "exit0_md"} THEN {<<pdf_stem(pdf), pdf>>} ELSE {}

\* convert_pdf: the markdown files it returns, or the exception it raises,
\* and the output folder afterwards
convert_pdf(pdf, tree, force, exit) ==
    LET existing == discover_markdowns(tree, pdf_stem(pdf))
        tree1 == tree \cup mineru_writes(pdf, exit)
        made == discover_markdowns(tree1, pdf_stem(pdf))
    IN  IF existing # <<>> /\ ~force
        THEN [raised |-> FALSE, ran |-> FALSE, outputs |-> existing, disk |-> tree]
        ELSE IF exit \in {"oserror", "exit1", "exit1_partial"}
        THEN [raised |-> TRUE, ran |-> TRUE, outputs |-> <<>>, disk |-> tree1]
        ELSE IF made = <<>>
        THEN [raised |-> TRUE, ran |-> TRUE, outputs |-> <<>>, disk |-> tree1]
        ELSE [raised |-> FALSE, ran |-> TRUE, outputs |-> made, disk |-> tree1]

\* the except branch with the raise left out
after_failure_swallow_bug(fail_fast) == "loop"

\* lines 75-78: log the failure, re-raise it when fail_fast is set
after_failure(fail_fast) == IF fail_fast THEN "raised" ELSE "loop"

ConvInit ==
    \E folder \in SUBSET PdfPaths, fail_fast \in BOOLEAN, force \in BOOLEAN,
       stale \in SUBSET {<<1, 0>>} :
        convRun = [pc |-> "loop", pdfs |-> discover_pdfs(folder), i |-> 1,
                   fail_fast |-> fail_fast, force |-> force, disk |-> stale,
                   md_files |-> <<>>, calls |-> <<>>, result |-> None]

\* lines 72-78: one iteration of the loop, the whole convert_pdf call included
ConvertNext ==
    /\ convRun.pc = "loop"
    /\ convRun.i <= Len(convRun.pdfs)
    /\ \E exit \in MinerUOutcomes :
          LET pdf == convRun.pdfs[convRun.i]
              r == convert_pdf(pdf, convRun.disk, convRun.force, exit)
          IN  convRun' = [convRun EXCEPT
                  !.pc = IF r.raised THEN after_failure(convRun.fail_fast) ELSE "loop",
                  !.i = @ + 1,
                  !.disk = r.disk,
                  !.md_files = @ \o r.outputs,
                  !.calls = Append(@, [pdf |-> pdf, raised |-> r.raised,
                                       outputs |-> r.outputs])]
    /\ UNCHANGED notConv

\* line 80: return sorted(set(md_files))
ConvertReturn ==
    /\ convRun.pc = "loop"
    /\ convRun.i > Len(convRun.pdfs)
    /\ convRun' = [convRun EXCEPT
           !.pc = "done",
           !.result = Some(SortedMarkdowns({convRun.md_files[k] : k \in 1..Len(convRun.md_files)}))]
    /\ UNCHANGED notConv

ConvNext == ConvertNext \/ ConvertReturn

(***************************************************************************)
(* md_parser.parse_statement_markdown                                      *)
(***************************************************************************)
\* The markdown text as the sequence of what the three regular expressions
\* can see in it: "open" is a <table ...> tag, "close" a </table> tag, and
\* the rest are <tr>...</tr> rows: "header" has the five header cells,
\* "early" and "late" are statement rows dated the 5th and the 20th, "junk"
\* has fewer than five <td> cells.
MaxRows == 2

RowKinds == {"header", "early", "late", "junk"}

RowSeqs == UNION {[1..n -> RowKinds] : n \in 0..MaxRows}

\* one table of the file; its </table> may be missing
TableTexts == [rows : RowSeqs, closed : BOOLEAN]

TableTokens(t) ==
    <<"open">> \o t.rows \o (IF t.closed THEN <<"close">> ELSE <<>>)

\* parse_date(cols[0]) of a row, as the day of the month; None for the rest
row_date(kind) ==
    CASE kind = "early" -> Some(5)
      [] kind = "late" -> Some(20)
      [] OTHER -> None

\* _TABLE_RE.finditer: the next match at or after position pos starts at the
\* first <table> tag that has a </table> somewhere after it (0: no match)
next_table(doc, pos) ==
    LET opens == {k \in pos..Len(doc) :
                     /\ doc[k] = "open"
                     /\ \E c \in (k + 1)..Len(doc) : doc[c] = "close"}
    IN  IF opens = {} THEN 0 ELSE CHOOSE k \in opens : \A j \in opens : k <= j

\* header_seen carried over from the table before
header_seen_carried_bug(previous) == previous

\* line 75: header_seen = False
header_seen_at_table_start(previous) == FALSE

\* records.sort(key=(date_iso, source_md, source_row)) within one file
RECURSIVE SortedRecords(_)
SortedRecords(S) ==
    IF S = {} THEN <<>>
    ELSE LET least == CHOOSE r \in S : \A q \in S :
                          r.day < q.day \/ (r.day = q.day /\ r.source_row <= q.source_row)
         IN  <<least>> \o SortedRecords(S \ {least})

MdInit ==
    \E t1 \in TableTexts, t2 \in TableTexts :
        mdRun = [pc |-> "tables", doc |-> TableTokens(t1) \o TableTokens(t2),
                 pos |-> 1, header_seen |-> FALSE, row_no |-> 0,
                 records |-> <<>>, result |-> None]

\* line 73: the next table match; lines 74-75
MdTable ==
    /\ mdRun.pc = "tables"
    /\ next_table(mdRun.doc, mdRun.pos) # 0
    /\ mdRun' = [mdRun EXCEPT
           !.pc = "rows",
           !.pos = next_table(mdRun.doc, mdRun.pos) + 1,
           !.header_seen = header_seen_at_table_start(mdRun.header_seen)]
    /\ UNCHANGED notMd

\* lines 76-113: the next row of the table text; a <table> tag inside the
\* text is no row and is passed over
MdRow ==
    /\ mdRun.pc = "rows"
    /\ mdRun.doc[mdRun.pos] # "close"
    /\ LET kind == mdRun.doc[mdRun.pos]
           n == mdRun.row_no + 1
       IN  mdRun' =
             IF kind = "open" THEN [mdRun EXCEPT !.pos = @ + 1]
             ELSE IF kind = "junk" THEN [mdRun EXCEPT !.pos = @ + 1, !.row_no = n]
             ELSE IF kind = "header"
             THEN [mdRun EXCEPT !.pos = @ + 1, !.row_no = n, !.header_seen = TRUE]
             ELSE IF ~mdRun.header_seen \/ row_date(kind) = None
             THEN [mdRun EXCEPT !.pos = @ + 1, !.row_no = n]
             ELSE [mdRun EXCEPT !.pos = @ + 1, !.row_no = n,
                       !.records = Append(@, [day |-> row_date(kind)[1],
                                              source_row |-> n,
                                              token |-> mdRun.pos])]
    /\ UNCHANGED notMd

\* the table text ends at the first </table>
MdTableEnd ==
    /\ mdRun.pc = "rows"
    /\ mdRun.doc[mdRun.pos] = "close"
    /\ mdRun' = [mdRun EXCEPT !.pc = "tables", !.pos = @ + 1]
    /\ UNCHANGED notMd

\* lines 115-116: no table is left: sort and return
MdReturn ==
    /\ mdRun.pc = "tables"
    /\ next_table(mdRun.doc, mdRun.pos) = 0
    /\ mdRun' = [mdRun EXCEPT
           !.pc = "done",
           !.result = Some(SortedRecords({mdRun.records[k] : k \in 1..Len(mdRun.records)}))]
    /\ UNCHANGED notMd

MdNext == MdTable \/ MdRow \/ MdTableEnd \/ MdReturn

(***************************************************************************)
(* onenote_sync.sync_to_onenote_preview                                    *)
(***************************************************************************)
\* The preview file as a sequence of pieces: START_MARKER, END_MARKER, a line
\* break, "notes" (text of the user) and "report1", "report2" (the lines
\* build_report_html puts between the markers for two different inputs).
START_MARKER == "<!-- BS2O:START -->"

END_MARKER == "<!-- BS2O:END -->"

MaxFileLen == 3

FilePieces == {"notes", "\n", START_MARKER, END_MARKER}

FileTexts == UNION {[1..n -> FilePieces] : n \in 0..MaxFileLen}

Contains(text, piece) == \E k \in 1..Len(text) : text[k] = piece

\* lines 56-100: "\n".join([START_MARKER, ..., END_MARKER])
build_report_html(report) == <<START_MARKER, "\n", report, "\n", END_MARKER>>

replace_managed_block(existing, replacement) ==
    IF Contains(existing, START_MARKER) /\ Contains(existing, END_MARKER)
    THEN replacement
    ELSE IF existing # <<>> /\ existing[Len(existing)] # "\n"
    THEN existing \o <<"\n">> \o replacement
    ELSE existing \o replacement

PreviewInit ==
    \E before \in {None} \cup {Some(t) : t \in FileTexts} :
        previewRun = [pc |-> "ready", file |-> before, written |-> <<before>>,
                      reports |-> <<>>]

\* lines 111-121, the whole call
SyncPreview ==
    /\ previewRun.pc = "ready"
    /\ Len(previewRun.reports) < 2
    /\ \E report \in {"report1", "report2"} :
          LET existing == IF previewRun.file = None THEN <<>> ELSE previewRun.file[1]
              payload == build_report_html(report)
              text == replace_managed_block(existing, payload)
          IN  previewRun' = [previewRun EXCEPT
                  !.file = Some(text),
                  !.written = Append(@, Some(text)),
                  !.reports = Append(@, report)]
    /\ UNCHANGED notPreview

PreviewNext == SyncPreview

(***************************************************************************)
(* onenote_sync: the token cache and the device-code flow                  *)
(***************************************************************************)
\* time.time() in whole seconds
MaxNow == 60

\* the margin of _token_from_cache and of _save_token_cache
EXPIRY_MARGIN == 30

\* the shortest lifetime _save_token_cache writes
MIN_CACHED_LIFETIME == 60

\* expires_in of a token response, in seconds
TokenLifetimes == {0, 20, 100}

\* _token_from_cache on a cache file that holds a token
token_from_cache(cache, now) ==
    IF cache = None THEN None
    ELSE IF cache[1].expires_at <= now + EXPIRY_MARGIN THEN None
    ELSE Some(cache[1].access_token)

\* the payload _save_token_cache writes
save_token_cache(token, expires_in, now) ==
    [access_token |-> token,
     expires_at |-> now + Max2(MIN_CACHED_LIFETIME, expires_in - EXPIRY_MARGIN)]

\* tokens are numbered in the order they are issued; issued[k] tells when
\* token k was stored and the expires_in it came with
TokenInit ==
    tokenRun = [pc |-> "ready", now |-> 0, cache |-> None, issued |-> <<>>,
                deadline |-> 0, hit |-> None]

\* time passes between two runs of the program
TokenTick ==
    /\ tokenRun.pc = "ready"
    /\ \E dt \in {5, 20} :
          /\ tokenRun.now + dt <= MaxNow
          /\ tokenRun' = [tokenRun EXCEPT !.now = @ + dt]
    /\ UNCHANGED notToken

\* lines 148-167: the cached token, or the device code request
TokenCall ==
    /\ tokenRun.pc = "ready"
    /\ LET cached == token_from_cache(tokenRun.cache, tokenRun.now)
       IN  IF cached # None
           THEN tokenRun' = [tokenRun EXCEPT
                    !.hit = Some([token |-> cached[1], at |-> tokenRun.now])]
           ELSE \E dc_expires_in \in {10, 900} :
                    tokenRun' = [tokenRun EXCEPT
                        !.pc = "polling", !.hit = None,
                        !.deadline = tokenRun.now + dc_expires_in]
    /\ UNCHANGED notToken

\* lines 169-190: one poll of the token endpoint: a token, or
\* authorization_pending / slow_down and a sleep, or another error
TokenPoll ==
    /\ tokenRun.pc = "polling"
    /\ tokenRun.now < tokenRun.deadline
    /\ \/ \E expires_in \in TokenLifetimes :
             LET token == Len(tokenRun.issued) + 1
             IN  tokenRun' = [tokenRun EXCEPT
                     !.pc = "ready",
                     !.cache = Some(save_token_cache(token, expires_in, tokenRun.now)),
                     !.issued = Append(@, [saved_at |-> tokenRun.now,
                                           expires_in |-> expires_in])]
       \/ \E sleep \in {5, 7} :
             /\ tokenRun.now + sleep <= MaxNow
             /\ tokenRun' = [tokenRun EXCEPT !.now = @ + sleep]
       \/ tokenRun' = [tokenRun EXCEPT !.pc = "ready"]
    /\ UNCHANGED notToken

\* line 192: the device code has expired
TokenTimeout ==
    /\ tokenRun.pc = "polling"
    /\ tokenRun.now >= tokenRun.deadline
    /\ tokenRun' = [tokenRun EXCEPT !.pc = "ready"]
    /\ UNCHANGED notToken

TokenNext == TokenTick \/ TokenCall \/ TokenPoll \/ TokenTimeout

(***************************************************************************)
(* config: save_config, load_config                                        *)
(***************************************************************************)
\* A config value is tagged with its Python type: a string and the text of
\* a bool are sequences of characters, a list is a sequence of values, a
\* dict is a sequence of <<key, value>> in insertion order.
StrV(chars) == [t |-> "str", v |-> chars]

BoolV(b) == [t |-> "bool", v |-> IF b THEN <<"T">> ELSE <<"F">>]

NoneV == [t |-> "none", v |-> <<>>]

ListV(items) == [t |-> "list", v |-> items]

DictV(pairs) == [t |-> "dict", v |-> pairs]

MaxStr == 2

MaxArgs == 1

\* the characters of a path: a letter, a backslash, a double quote, a colon
PathChars == {"a", "\\", "\"", ":"}

PathTexts == UNION {[1..n -> PathChars] : n \in 0..MaxStr}

ArgTexts == {<<"-", "p">>, <<"a", ":", "b">>}

ArgLists == UNION {[1..n -> ArgTexts] : n \in 0..MaxArgs}

\* DEFAULT_CONFIG, cut down to one key of every kind of value
DEFAULT_CONFIG ==
    DictV(<<
        <<"paths", DictV(<< <<"export_dir", StrV(<<".", "/", "e">>)>> >>)>>,
        <<"mineru", DictV(<< <<"args", ListV(<<StrV(<<"-", "p">>)>>)>>,
                             <<"recursive", BoolV(TRUE)>> >>)>>,
        <<"onenote", DictV(<< <<"tenant", StrV(<<"c">>)>> >>)>>
    >>)

\* a config of the shape of DEFAULT_CONFIG
ConfigOf(path, args, recursive, tenant) ==
    DictV(<<
        <<"paths", DictV(<< <<"export_dir", StrV(path)>> >>)>>,
        <<"mineru", DictV(<< <<"args", ListV([k \in 1..Len(args) |-> StrV(args[k])])>>,
                             <<"recursive", BoolV(recursive)>> >>)>>,
        <<"onenote", DictV(<< <<"tenant", tenant>> >>)>>
    >>)

\* json.dumps of a string: quotes around it, a backslash before every
\* backslash and every double quote
RECURSIVE json_escape(_)
json_escape(chars) ==
    IF chars = <<>> THEN <<>>
    ELSE (IF Head(chars) \in {"\\", "\""} THEN <<"\\", Head(chars)>> ELSE <<Head(chars)>>)
         \o json_escape(Tail(chars))

json_dumps(chars) == <<"\"">> \o json_escape(chars) \o <<"\"">>

\* lines 128 and 137: json.dumps(item) for a string, str(item) for the rest
scalar_text(item) ==
    CASE item.t = "str" -> json_dumps(item.v)
      [] item.t = "bool" -> IF item.v = <<"T">> THEN <<"T", "r", "u", "e">>
                            ELSE <<"F", "a", "l", "s", "e">>
      [] OTHER -> <<"N", "o", "n", "e">>

\* A line of the file: its indentation, whether it starts with "- ", its key
\* (the text before the first colon; no key has a colon) and the text after
\* "key: " or "- ".
YamlLine(indent, item, key, text) ==
    [indent |-> indent, item |-> item, key |-> key, text |-> text]

RECURSIVE dump_yaml(_, _)
RECURSIVE dump_entries(_, _, _)
dump_entries(entries, isList, indent) ==
    IF entries = <<>> THEN <<>>
    ELSE LET key == IF isList THEN "" ELSE Head(entries)[1]
             item == IF isList THEN Head(entries) ELSE Head(entries)[2]
         IN  (IF item.t \in {"dict", "list"}
              THEN <<YamlLine(indent, isList, key, <<>>)>> \o dump_yaml(item, indent + 2)
              ELSE <<YamlLine(indent, isList, key, scalar_text(item))>>)
             \o dump_entries(Tail(entries), isList, indent)

dump_yaml(value, indent) ==
    IF value.t \in {"dict", "list"}
    THEN dump_entries(value.v, value.t = "list", indent)
    ELSE <<YamlLine(indent, FALSE, "", scalar_text(value))>>

\* _coerce_scalar of a text without surrounding blanks
coerce_scalar(text) ==
    IF text = <<>> THEN StrV(<<>>)
    ELSE IF text \in {<<"T", "r", "u", "e">>, <<"t", "r", "u", "e">>} THEN BoolV(TRUE)
    ELSE IF text \in {<<"F", "a", "l", "s", "e">>, <<"f", "a", "l", "s", "e">>} THEN BoolV(FALSE)
    ELSE IF text \in {<<"N", "o", "n", "e">>, <<"n", "u", "l", "l">>} THEN NoneV
    ELSE IF text[1] = "\"" /\ text[Len(text)] = "\""
    THEN StrV(SubSeq(text, 2, Len(text) - 1))
    ELSE StrV(text)

\* parse_block; positions count from 1.  error: a ValueError was raised.
RECURSIVE parse_block(_, _, _)
RECURSIVE parse_items(_, _, _, _)
RECURSIVE parse_object(_, _, _, _)
parse_items(lines, idx, indent, items) ==
    IF idx <= Len(lines) /\ lines[idx].indent = indent /\ lines[idx].item
    THEN parse_items(lines, idx + 1, indent, Append(items, coerce_scalar(lines[idx].text)))
    ELSE [value |-> ListV(items), idx |-> idx, error |-> FALSE]

parse_object(lines, idx, indent, obj) ==
    IF idx > Len(lines) \/ lines[idx].indent < indent
    THEN [value |-> DictV(obj), idx |-> idx, error |-> FALSE]
    ELSE IF lines[idx].indent > indent \/ lines[idx].item
    THEN [value |-> DictV(obj), idx |-> idx, error |-> TRUE]
    ELSE IF lines[idx].text = <<>>
    THEN LET child == parse_block(lines, idx + 1, indent + 2)
         IN  IF child.error THEN child
             ELSE parse_object(lines, child.idx, indent,
                               Append(obj, <<lines[idx].key, child.value>>))
    ELSE parse_object(lines, idx + 1, indent,
                      Append(obj, <<lines[idx].key, coerce_scalar(lines[idx].text)>>))

parse_block(lines, start, indent) ==
    IF start > Len(lines) THEN [value |-> DictV(<<>>), idx |-> start, error |-> FALSE]
    ELSE IF lines[start].item THEN parse_items(lines, start, indent, <<>>)
    ELSE parse_object(lines, start, indent, <<>>)

parse_simple_yaml(lines) == parse_block(lines, 1, 0)

HasKey(pairs, key) == \E k \in 1..Len(pairs) : pairs[k][1] = key

ValueAt(pairs, key) == pairs[CHOOSE k \in 1..Len(pairs) : pairs[k][1] = key][2]

\* merged[key] = value
SetKey(pairs, key, value) ==
    IF HasKey(pairs, key)
    THEN [k \in 1..Len(pairs) |-> IF pairs[k][1] = key THEN <<key, value>> ELSE pairs[k]]
    ELSE Append(pairs, <<key, value>>)

\* deep_merge works on a deepcopy of base
RECURSIVE deep_merge(_, _)
RECURSIVE merge_entries(_, _)
merge_entries(merged, entries) ==
    IF entries = <<>> THEN merged
    ELSE LET key == Head(entries)[1]
             value == Head(entries)[2]
             both == /\ value.t = "dict" /\ HasKey(merged, key)
                     /\ ValueAt(merged, key).t = "dict"
         IN  merge_entries(
                 SetKey(merged, key,
                        IF both THEN deep_merge(ValueAt(merged, key), value) ELSE value),
                 Tail(entries))

deep_merge(base, override) == DictV(merge_entries(base.v, override.v))

CfgInit ==
    \E path \in PathTexts, args \in ArgLists, recursive \in BOOLEAN,
       tenant \in {NoneV, StrV(<<"a">>)} :
        cfgRun = [pc |-> "save", config |-> ConfigOf(path, args, recursive, tenant),
                  defaults |-> DEFAULT_CONFIG, file |-> <<>>,
                  loaded |-> None, raised |-> FALSE]

\* save_config: the lines of _dump_yaml
SaveConfig ==
    /\ cfgRun.pc = "save"
    /\ cfgRun' = [cfgRun EXCEPT !.pc = "load", !.file = dump_yaml(cfgRun.config, 0)]
    /\ UNCHANGED notCfg

\* load_config of the file just written (it is no JSON text)
LoadConfig ==
    /\ cfgRun.pc = "load"
    /\ LET parsed == parse_simple_yaml(cfgRun.file)
       IN  cfgRun' =
             IF parsed.error \/ parsed.value.t # "dict"
             THEN [cfgRun EXCEPT !.pc = "done", !.raised = TRUE]
             ELSE [cfgRun EXCEPT !.pc = "done",
                       !.loaded = Some(deep_merge(cfgRun.defaults, parsed.value))]
    /\ UNCHANGED notCfg

CfgNext == SaveConfig \/ LoadConfig

(***************************************************************************)
(* onenote_sync.sync_to_onenote_graph                                      *)
(***************************************************************************)
MaxPages == 3

PageTitles == {"Report", " report", "Other"}

\* settings.page_title
PAGE_TITLE == "Report"

\* value.strip().lower()
strip_lower(title) ==
    CASE title = "Report" -> "report"
      [] title = " report" -> "report"
      [] OTHER -> "other"

\* _find_by_name: the position of the first item of the listing whose title
\* matches (0: None)
find_by_name(items, target) ==
    LET hits == {k \in 1..Len(items) : strip_lower(items[k].title) = strip_lower(target)}
    IN  IF hits = {} THEN 0 ELSE CHOOSE k \in hits : \A j \in hits : k <= j

\* the pages of the section, in the order the service lists them
PageListings ==
    UNION {[1..n -> PageTitles] : n \in 0..MaxPages}

GraphInit ==
    \E titles \in PageListings, client_id \in {"", "app"} :
        LET pages == [k \in 1..Len(titles) |-> [id |-> k, title |-> titles[k]]]
        IN  graphRun = [pc |-> "start", client_id |-> client_id,
                        before |-> pages, pages |-> pages]

\* lines 263-266: the client_id test and the access token
GraphAuth ==
    /\ graphRun.pc = "start"
    /\ \E ok \in BOOLEAN :
          graphRun' = [graphRun EXCEPT
              !.pc = IF graphRun.client_id = "" \/ ~ok THEN "failed" ELSE "lookup"]
    /\ UNCHANGED notGraph

\* lines 267-268: the notebook and the section, found or created
GraphLookup ==
    /\ graphRun.pc = "lookup"
    /\ \E ok \in BOOLEAN :
          graphRun' = [graphRun EXCEPT !.pc = IF ok THEN "delete" ELSE "failed"]
    /\ UNCHANGED notGraph

\* line 270, _delete_existing_page_if_any: list the pages, delete the first
\* one whose title matches
GraphDelete ==
    /\ graphRun.pc = "delete"
    /\ \E listed \in BOOLEAN, deleted \in BOOLEAN :
          LET found == find_by_name(graphRun.pages, PAGE_TITLE)
          IN  graphRun' =
                IF ~listed THEN [graphRun EXCEPT !.pc = "failed"]
                ELSE IF found = 0 THEN [graphRun EXCEPT !.pc = "create"]
                ELSE IF ~deleted THEN [graphRun EXCEPT !.pc = "failed"]
                ELSE [graphRun EXCEPT
                         !.pc = "create",
                         !.pages = SubSeq(@, 1, found - 1) \o SubSeq(@, found + 1, Len(@))]
    /\ UNCHANGED notGraph

\* lines 272-286: the new page
GraphCreate ==
    /\ graphRun.pc = "create"
    /\ \E ok \in BOOLEAN :
          graphRun' =
            IF ok
            THEN [graphRun EXCEPT
                     !.pc = "done",
                     !.pages = Append(@, [id |-> Len(graphRun.before) + 1,
                                          title |-> PAGE_TITLE])]
            ELSE [graphRun EXCEPT !.pc = "failed"]
    /\ UNCHANGED notGraph

GraphNext == GraphAuth \/ GraphLookup \/ GraphDelete \/ GraphCreate

\* every part of the chart modules at rest
ChartsIdle == AggIdle /\ PngIdle /\ PieIdle /\ GenIdle /\ BarIdle /\ ConcIdle

(***************************************************************************)
(* Specifications                                                           *)
(***************************************************************************)
InitSeries == AggInit /\ PngIdle /\ PieIdle /\ GenIdle /\ BarIdle /\ ConcIdle /\ RunsIdle

SpecSeries == InitSeries /\ [][AggNext]_vars

InitPng == PngInit /\ AggIdle /\ PieIdle /\ GenIdle /\ BarIdle /\ ConcIdle /\ RunsIdle

SpecPng == InitPng /\ [][PngNext]_vars

InitPie == PieInit /\ AggIdle /\ PngIdle /\ GenIdle /\ BarIdle /\ ConcIdle /\ RunsIdle

SpecPie == InitPie /\ [][PieNext]_vars

InitCharts == GenInit /\ AggIdle /\ PngIdle /\ PieIdle /\ BarIdle /\ ConcIdle /\ RunsIdle

SpecCharts == InitCharts /\ [][GenNext]_vars

InitBars == BarInit /\ AggIdle /\ PngIdle /\ PieIdle /\ GenIdle /\ ConcIdle /\ RunsIdle

SpecBars == InitBars /\ [][BarNext]_vars

InitRenders == ConcInit /\ AggIdle /\ PngIdle /\ PieIdle /\ GenIdle /\ BarIdle /\ RunsIdle

SpecRenders == InitRenders /\ [][ConcNext]_vars

InitLine ==
    /\ LineInit /\ ChartsIdle
    /\ convRun = NotRun /\ mdRun = NotRun /\ previewRun = NotRun
    /\ tokenRun = NotRun /\ cfgRun = NotRun /\ graphRun = NotRun

\* The loop is the only thing the call does: it keeps iterating.
SpecLine == InitLine /\ [][LineNext]_vars /\ WF_vars(LineNext)

InitConvert ==
    /\ ConvInit /\ ChartsIdle
    /\ lineRun = NotRun /\ mdRun = NotRun /\ previewRun = NotRun
    /\ tokenRun = NotRun /\ cfgRun = NotRun /\ graphRun = NotRun

SpecConvert == InitConvert /\ [][ConvNext]_vars

InitMarkdown ==
    /\ MdInit /\ ChartsIdle
    /\ lineRun = NotRun /\ convRun = NotRun /\ previewRun = NotRun
    /\ tokenRun = NotRun /\ cfgRun = NotRun /\ graphRun = NotRun

SpecMarkdown == InitMarkdown /\ [][MdNext]_vars

InitPreview ==
    /\ PreviewInit /\ ChartsIdle
    /\ lineRun = NotRun /\ convRun = NotRun /\ mdRun = NotRun
    /\ tokenRun = NotRun /\ cfgRun = NotRun /\ graphRun = NotRun

SpecPreview == InitPreview /\ [][PreviewNext]_vars

InitToken ==
    /\ TokenInit /\ ChartsIdle
    /\ lineRun = NotRun /\ convRun = NotRun /\ mdRun = NotRun
    /\ previewRun = NotRun /\ cfgRun = NotRun /\ graphRun = NotRun

SpecToken == InitToken /\ [][TokenNext]_vars

InitConfig ==
    /\ CfgInit /\ ChartsIdle
    /\ lineRun = NotRun /\ convRun = NotRun /\ mdRun = NotRun
    /\ previewRun = NotRun /\ tokenRun = NotRun /\ graphRun = NotRun

SpecConfig == InitConfig /\ [][CfgNext]_vars

InitGraph ==
    /\ GraphInit /\ ChartsIdle
    /\ lineRun = NotRun /\ convRun = NotRun /\ mdRun = NotRun
    /\ previewRun = NotRun /\ tokenRun = NotRun /\ cfgRun = NotRun

SpecGraph == InitGraph /\ [][GraphNext]_vars

(***************************************************************************)
(* Claims about the aggregator.                                             *)
(***************************************************************************)
\* The exact sum, in mills, of a field over the records whose index is in S.
RECURSIVE SumOverIdx(_, _)
SumOverIdx(S, field) ==
    IF S = {} THEN 0
    ELSE LET k == CHOOSE k \in S : TRUE
         IN  OrZero(records[k][field]) + SumOverIdx(S \ {k}, field)

RecordsOn(d) == {k \in 1..Len(records) : records[k].date_iso = d}

AllRecords == 1..Len(records)

\* v (cents) is a nearest cent of s (mills).
NearestCent(v, s) == Abs(10 * v - s) <= 5

CalendarLengths == <<31, 28, 31, 30, 31, 30, 31, 31, 30, 31, 30, 31>>

CalendarLength(y, m) ==
    IF m = 2 /\ y % 4 = 0 /\ y \in 2000..2099 THEN 29 ELSE CalendarLengths[m]

FirstYear == records[1].date_iso[1]

FirstMonth == records[1].date_iso[2]

\* C1: for a non-empty record list of one calendar month, days has the
\* month's calendar length, starts at YYYY-MM-01 and ends at the month's last
\* day; a December list ends at YYYY-12-31 and holds no day of year YYYY+1.
C1_MonthSpan ==
    apc = "done" =>
        /\ \A k \in AllRecords : month_key(records[k].date_iso) = <<FirstYear, FirstMonth>>
        /\ Len(days) = CalendarLength(FirstYear, FirstMonth)
        /\ Len(days) \in 28..31
        /\ days[1] = <<FirstYear, FirstMonth, 1>>
        /\ days[Len(days)] = <<FirstYear, FirstMonth, CalendarLength(FirstYear, FirstMonth)>>
        /\ \A i \in 1..Len(days) : days[i][1] = FirstYear /\ days[i][2] = FirstMonth

C1_Witness ==
    /\ apc = "done"
    /\ FirstMonth = 12
    /\ records[1].date_iso[3] = 3
    /\ days[Len(days)] = <<FirstYear, 12, 31>>

\* C2: days is strictly ascending without a gap, income and spending are as
\* long as days, and income[i] (spending[i]) is the sum of paid_in (withdrawn)
\* over exactly the records dated days[i], at the two decimals the series
\* carries: the sum itself when the amounts are whole cents, and 0 when no
\* record falls on that day.
C2_DenseSeries ==
    apc = "done" =>
        /\ Len(income) = Len(days) /\ Len(spending) = Len(days)
        /\ \A i \in 1..(Len(days) - 1) :
              days[i + 1] = <<days[i][1], days[i][2], days[i][3] + 1>>
        /\ \A i \in 1..Len(days) :
              LET inSum == SumOverIdx(RecordsOn(days[i]), "paid_in")
                  outSum == SumOverIdx(RecordsOn(days[i]), "withdrawn")
              IN  /\ NearestCent(income[i], inSum)
                  /\ NearestCent(spending[i], outSum)
                  /\ (inSum % 10 = 0 => 10 * income[i] = inSum)
                  /\ (outSum % 10 = 0 => 10 * spending[i] = outSum)
                  /\ (RecordsOn(days[i]) = {} => income[i] = 0 /\ spending[i] = 0)

\* deposit 100 on day 1, withdrawal 40 on day 3, in a 30-day month
C2_Witness ==
    /\ apc = "done"
    /\ Len(records) = 2
    /\ records[1] = [date_iso |-> <<2024, 4, 1>>, withdrawn |-> None, paid_in |-> Some(100000)]
    /\ records[2] = [date_iso |-> <<2024, 4, 3>>, withdrawn |-> Some(40000), paid_in |-> None]
    /\ Len(days) = 30
    /\ income[1] = 10000 /\ income[3] = 0 /\ spending[3] = 4000

\* C3: total_income and total_spending are the sums of the deposit resp.
\* withdrawal field over all records (a missing amount counting 0), rounded
\* once after the summation, and net_increase = total_income - total_spending
\* exactly, in cents.
C3_SummarizeMonth ==
    apc # "summarize" =>
        LET s == summary[1]
            inSum == SumOverIdx(AllRecords, "paid_in")
            outSum == SumOverIdx(AllRecords, "withdrawn")
        IN  /\ NearestCent(s.total_income, inSum)
            /\ NearestCent(s.total_spending, outSum)
            /\ s.net_increase = s.total_income - s.total_spending

\* two deposits of 0.004 and a missing amount: the sum 0.008 rounds to 0.01
C3_Witness ==
    /\ apc # "summarize"
    /\ SumOverIdx(AllRecords, "paid_in") = 8
    /\ \E k \in AllRecords : records[k].withdrawn = None
    /\ summary[1].total_income = 1
    /\ summary[1].net_increase = 1 - summary[1].total_spending

\* C4: for every month's record list, income[i] + spending[i] = totals[i], the
\* daily income (spending) array sums to the monthly total_income
\* (total_spending) within the rounding of its entries, and no record counted
\* in the monthly summary is missing from the daily series.
DayRange == {days[i] : i \in 1..Len(days)}

C4_DailyMatchesMonthly ==
    apc = "done" =>
        /\ \A i \in 1..Len(days) :
              bar_totals(income, spending, days)[i] = income[i] + spending[i]
        /\ Abs(SumSeq(income) - summary[1].total_income) <= Len(records) + 1
        /\ Abs(SumSeq(spending) - summary[1].total_spending) <= Len(records) + 1
        /\ \A k \in AllRecords :
              Truthy(records[k].paid_in) \/ Truthy(records[k].withdrawn)
                  => records[k].date_iso \in DayRange

(***************************************************************************)
(* Claims about the PNG encoder.  The decoder below reads a byte sequence   *)
(* the way a PNG reader does.                                               *)
(***************************************************************************)
U16At(bs, off) == bs[off + 1] * 256 + bs[off + 2]

\* A chunk starting after `off` bytes: length, tag, payload, CRC.
ChunkAt(bs, off) ==
    LET len == U16At(bs, off) * 65536 + U16At(bs, off + 2)
    IN  [len  |-> len,
         tag  |-> SubSeq(bs, off + 5, off + 8),
         data |-> SubSeq(bs, off + 9, off + 8 + len),
         crc  |-> <<U16At(bs, off + 8 + len), U16At(bs, off + 10 + len)>>,
         next |-> off + 12 + len]

HeaderChunk(bs) == ChunkAt(bs, 8)

DataChunk(bs) == ChunkAt(bs, HeaderChunk(bs).next)

EndChunk(bs) == ChunkAt(bs, DataChunk(bs).next)

\* Inflate of a zlib stream holding one stored block; <<-1>> when it is none.
Inflate(z) ==
    IF Len(z) < 11 THEN <<-1>>
    ELSE LET len == z[4] + 256 * z[5]
             data == SubSeq(z, 8, 7 + len)
         IN  IF /\ z[1] = 120 /\ z[3] = 1
                /\ z[6] = 255 - z[4] /\ z[7] = 255 - z[5]
                /\ Len(z) = 11 + len
                /\ <<U16At(z, 7 + len), U16At(z, 9 + len)>> = adler32(data)
             THEN data ELSE <<-1>>

DecodedWidth(bs) == U16At(HeaderChunk(bs).data, 2)

DecodedHeight(bs) == U16At(HeaderChunk(bs).data, 6)

\* The pixel buffer a reader rebuilds: inflate, drop each row's filter byte.
DecodedPixels(bs) ==
    LET w == DecodedWidth(bs)
        h == DecodedHeight(bs)
        raw == Inflate(DataChunk(bs).data)
    IN  [i \in 1..(w * h) |->
            LET base == ((i - 1) \div w) * (1 + 3 * w) + 1 + 3 * ((i - 1) % w)
            IN  <<raw[base + 1], raw[base + 2], raw[base + 3]>>]

\* C5: the data save_png compresses is height rows, each one filter byte 0
\* and then the row's width RGB triples in row-major order; decoding the file
\* gives back exactly canvas.pixels, with the width and height of the header.
C5_Lossless ==
    outcome = "ok" =>
        LET file == disk[1]
            raw == Inflate(DataChunk(file).data)
            w == canvas.width
            h == canvas.height
        IN  /\ DecodedWidth(file) = w /\ DecodedHeight(file) = h
            /\ Len(raw) = h * (1 + 3 * w)
            /\ \A y \in 0..(h - 1) : raw[y * (1 + 3 * w) + 1] = 0
            /\ \A y \in 0..(h - 1) : \A x \in 0..(w - 1) :
                  SubSeq(raw, y * (1 + 3 * w) + 2 + 3 * x, y * (1 + 3 * w) + 4 + 3 * x)
                      = canvas.pixels[y * w + x + 1]
            /\ DecodedPixels(file) = canvas.pixels

\* a saved canvas on which a line, a filled rectangle, an outline rectangle
\* and a text were drawn, each leaving pixels of its colour
C5_Witness ==
    /\ outcome = "ok"
    /\ drawn = <<"line", "fill", "outline", "text">>
    /\ {AXIS_RGB, SPENDING_RGB, OUTLINE_RGB, TEXT_RGB, WHITE}
          \subseteq {canvas.pixels[i] : i \in DOMAIN canvas.pixels}
    /\ DecodedPixels(disk[1]) = canvas.pixels

CrcOk(chunk) == chunk.crc = crc32(chunk.tag \o chunk.data)

\* C6: the file is the 8-byte signature, one IHDR chunk (width, height, bit
\* depth 8, colour type 2, compression 0, filter 0, interlace 0), one IDAT
\* chunk, one empty IEND chunk, and nothing else; every chunk is a 4-byte
\* big-endian payload length, a 4-byte tag, the payload, and the CRC-32 of
\* tag + payload.
C6_ChunkLayout ==
    outcome = "ok" =>
        LET file == disk[1]
            hd == HeaderChunk(file)
            dt == DataChunk(file)
            en == EndChunk(file)
        IN  /\ file = png
            /\ SubSeq(file, 1, 8) = <<137, 80, 78, 71, 13, 10, 26, 10>>
            /\ hd.tag = <<73, 72, 68, 82>> /\ hd.len = 13 /\ CrcOk(hd)
            /\ hd.data = BE32(canvas.width) \o BE32(canvas.height) \o <<8, 2, 0, 0, 0>>
            /\ dt.tag = <<73, 68, 65, 84>> /\ dt.len = Len(dt.data) /\ CrcOk(dt)
            /\ Inflate(dt.data) # <<-1>>
            /\ en.tag = <<73, 69, 78, 68>> /\ en.len = 0 /\ CrcOk(en)
            /\ en.crc = <<44610, 24706>>
            /\ en.next = Len(file)

C6_Witness ==
    /\ outcome = "ok"
    /\ canvas.width = 3 /\ canvas.height = 2
    /\ drawn # <<>>
    /\ HeaderChunk(disk[1]).next = 33
    /\ EndChunk(disk[1]).next = Len(disk[1])

\* C7: no image file is ever left partially written: when save_png fails,
\* either the file is as it was before the call or it holds the complete
\* image, never a prefix of it and never an empty or truncated file.
C7_NoPartialFile ==
    [][outcome' \notin {outcome, "ok"}
          => disk' = disk \/ disk' = Some(save_png_bytes(canvas))]_vars

(***************************************************************************)
(* Claims about the composer and the proportion chart.                      *)
(***************************************************************************)
CallNames == {calls[i][1] : i \in 1..Len(calls)}

CallsFor(month) ==
    LET own == SelectSeq(calls, LAMBDA c : c[2] = month)
    IN  [i \in 1..Len(own) |-> own[i][1]]

InputMonths == {month_key(allRecords[i].date_iso) : i \in 1..Len(allRecords)}

FallbackSequence ==
    <<"Canvas", "_fallback_pie", "save_png", "Canvas", "_fallback_bars", "save_png">>

\* C8: the backend is selected once at startup and holds for the whole run:
\* when the rich-graphics backend is present it renders both charts of every
\* month and Canvas, _fallback_pie, _fallback_bars and save_png are never
\* invoked; when it is absent both charts of every month are rendered by
\* Canvas + save_png and the rich backend is never invoked.
C8_BackendFixed ==
    /\ [][hasMatplotlib' = hasMatplotlib]_vars
    /\ [](hasMatplotlib => CallNames \subseteq {"_generate_with_matplotlib"})
    /\ [](~hasMatplotlib => "_generate_with_matplotlib" \notin CallNames)
    /\ [](gpc = "done" =>
            \A m \in InputMonths :
                /\ CallsFor(m) = IF hasMatplotlib
                                 THEN <<"_generate_with_matplotlib">>
                                 ELSE FallbackSequence
                /\ chart_file(m, "income_vs_spending") \in files
                /\ chart_file(m, "daily_income_spending") \in files)

\* a finished run over two months without the rich backend
C8_Witness ==
    /\ gpc = "done"
    /\ ~hasMatplotlib
    /\ Cardinality(InputMonths) = 2
    /\ Len(calls) = 12
    /\ Cardinality(files) = 4

PieDisc ==
    {i \in 1..Len(pie.pixels) :
        LET dx == ((i - 1) % pie.width) - pie_cx(pie)
            dy == ((i - 1) \div pie.width) - pie_cy(pie)
        IN  dx * dx + dy * dy <= pie_radius(pie) * pie_radius(pie)}

\* the share, in thousandths, of the colour among the disc's wedge pixels
\* (those not covered by a label)
PieShare(color) ==
    (1000 * Cardinality({i \in PieDisc : pie.pixels[i] = color}))
        \div Cardinality({i \in PieDisc : pie.pixels[i] \in {INCOME_RGB, SPENDING_RGB}})

\* C9: for income >= 0 and spending >= 0 with a positive total, the fraction
\* of the disc's pixels that _fallback_pie paints in the income colour is
\* income / (income + spending), up to pixel discretisation (here: within 5%
\* of the disc), and the rest of the disc is painted in the spending colour.
C9_WedgeProportional ==
    (ppc = "wedges" /\ pieIn[1] + pieIn[2] > 0) =>
        /\ Abs(PieShare(INCOME_RGB) - (1000 * pieIn[1]) \div (pieIn[1] + pieIn[2])) <= 50
        /\ \A i \in PieDisc : pie.pixels[i] \in {INCOME_RGB, SPENDING_RGB}

\* C10: the proportion chart of an all-zero month is a neutral pie, split
\* evenly between the income colour and the spending colour (each within 5%
\* of half the disc, the pixels under the two labels not counted).
C10_NeutralPie ==
    (ppc = "drawn" /\ pieIn = <<0, 0>>) =>
        /\ Abs(PieShare(INCOME_RGB) - 500) <= 50
        /\ Abs(PieShare(SPENDING_RGB) - 500) <= 50

(***************************************************************************)
(* The daily chart: claims                                                  *)
(***************************************************************************)
BarBaseline == BAR_HEIGHT - BAR_MARGIN

\* the drawing calls of a day that paint a segment of the colour with a
\* non-zero height
SegmentsOf(day, color) ==
    {k \in 1..Len(barOps) :
        /\ barOps[k].day = day /\ barOps[k].color = color
        /\ \/ barOps[k].op = "rect" /\ barOps[k].args[5] /\ barOps[k].args[4] > 0
           \/ barOps[k].op = "bar" /\ barOps[k].args[3] > 0}

\* how far above the baseline the segment starts and ends
SegLow(k) ==
    IF barOps[k].op = "rect"
    THEN BarBaseline - (barOps[k].args[2] + barOps[k].args[4])
    ELSE barOps[k].args[2]

SegHigh(k) ==
    IF barOps[k].op = "rect"
    THEN BarBaseline - barOps[k].args[2]
    ELSE barOps[k].args[2] + barOps[k].args[3]

BarDays == 0..(Len(barSeries.days) - 1)

\* C11: in the daily chart of both backends, for every day with a non-zero
\* income segment and a non-zero spending segment, the income segment is
\* drawn first and sits directly on the baseline, and the spending segment is
\* layered directly above it.
C11_IncomeBelowSpending ==
    \A d \in BarDays :
        \A ki \in SegmentsOf(d, INCOME_RGB) : \A ks \in SegmentsOf(d, SPENDING_RGB) :
            /\ ki < ks
            /\ SegLow(ki) = 0
            /\ SegLow(ks) = SegHigh(ki)

\* the amount labels of a day (not its day-of-month label)
AmountLabelsOf(day) ==
    {k \in 1..Len(barOps) :
        /\ barOps[k].day = day /\ barOps[k].op = "text"
        /\ barBackend = "fallback" => barOps[k].args[2] < BarBaseline}

\* how far above the baseline the label is placed
LabelHigh(k) ==
    IF barBackend = "fallback" THEN BarBaseline - barOps[k].args[2]
    ELSE barOps[k].args[2]

DigitVal(ch) == CHOOSE v \in 0..9 : DigitChars[v + 1] = ch

RECURSIVE ParseInt(_, _)
ParseInt(text, acc) ==
    IF text = <<>> THEN acc
    ELSE ParseInt(Tail(text), 10 * acc + DigitVal(Head(text)))

\* the amount a label reads as, in cents
AmountOf(text) ==
    LET dots == {k \in 1..Len(text) : text[k] = "."}
    IN  IF dots = {} THEN 100 * ParseInt(text, 0)
        ELSE LET dot == CHOOSE k \in dots : TRUE
                 frac == SubSeq(text, dot + 1, Len(text))
             IN  100 * ParseInt(SubSeq(text, 1, dot - 1), 0)
                 + (IF Len(frac) = 1 THEN 10 * ParseInt(frac, 0) ELSE ParseInt(frac, 0))

\* the amount a segment stands for, in cents
SegValue(k) ==
    IF barOps[k].color = INCOME_RGB THEN barSeries.income[barOps[k].day + 1]
    ELSE barSeries.spending[barOps[k].day + 1]

BothSegments(d) ==
    SegmentsOf(d, INCOME_RGB) # {} /\ SegmentsOf(d, SPENDING_RGB) # {}

\* the charts generate_monthly_charts draws: the rich backend's, and the
\* fallback's on a canvas of width max(600, 30 * len(days))
GeneratedChart ==
    \/ barBackend = "matplotlib"
    \/ barW = bar_canvas_width(Len(barSeries.days))

\* C12: whenever both segments of a day's bar are non-zero, the two numeric
\* labels are in the same top-to-bottom order as the stack: the label placed
\* higher reads the value of the segment drawn higher, the label placed lower
\* the value of the lower segment.
C12_LabelOrderFollowsStack ==
    \A d \in BarDays :
        BothSegments(d) =>
            LET segs == SegmentsOf(d, INCOME_RGB) \cup SegmentsOf(d, SPENDING_RGB)
                labels == AmountLabelsOf(d)
            IN  /\ GeneratedChart => Cardinality(labels) = 2
                /\ \A a \in labels : \A b \in labels :
                      /\ a # b => LabelHigh(a) # LabelHigh(b)
                      /\ LabelHigh(a) > LabelHigh(b) =>
                            \A hi \in segs : \A lo \in segs :
                                SegHigh(hi) > SegHigh(lo) =>
                                    /\ AmountOf(barOps[a].args[3]) = SegValue(hi)
                                    /\ AmountOf(barOps[b].args[3]) = SegValue(lo)

\* a finished fallback chart with a day whose two segments and two labels
\* stand for different amounts
C12_Witness ==
    /\ bpc = "done" /\ barBackend = "fallback"
    /\ \E d \in BarDays :
          /\ BothSegments(d)
          /\ barSeries.income[d + 1] # barSeries.spending[d + 1]
          /\ Cardinality(AmountLabelsOf(d)) = 2

\* the pixel rows a text call covers
TextRows(k) ==
    barOps[k].args[2]..(barOps[k].args[2] + Len(GlyphOf("0")) * barOps[k].args[4] - 1)

EveryDayHasBoth ==
    /\ barSeries.days # <<>>
    /\ \A i \in 1..Len(barSeries.days) :
          barSeries.income[i] > 0 /\ barSeries.spending[i] > 0

\* C13: in the fallback chart of a month in which every day has a positive
\* income and a positive spending, every day's bar has an income segment and
\* a spending segment, each at least one pixel high, and two amount labels,
\* one strictly above the other and on disjoint pixel rows.
C13_TwoSegmentsTwoLabels ==
    (barBackend = "fallback" /\ GeneratedChart /\ EveryDayHasBoth) =>
        \A d \in 0..(bi - 1) :
            /\ Cardinality(SegmentsOf(d, INCOME_RGB)) = 1
            /\ Cardinality(SegmentsOf(d, SPENDING_RGB)) = 1
            /\ Cardinality(AmountLabelsOf(d)) = 2
            /\ \A a \in AmountLabelsOf(d) : \A b \in AmountLabelsOf(d) :
                  a # b => TextRows(a) \cap TextRows(b) = {}

\* the axis ticks of a day
TicksOf(day) ==
    {k \in 1..Len(barOps) :
        /\ barOps[k].day = day
        /\ barOps[k].op = (IF barBackend = "fallback" THEN "line" ELSE "xtick")}

\* the day-of-month labels of a day, written below the axis
DayLabelsOf(day) ==
    {k \in 1..Len(barOps) :
        /\ barOps[k].day = day
        /\ \/ barOps[k].op = "xtick"
           \/ barOps[k].op = "text" /\ barBackend = "fallback"
              /\ barOps[k].args[2] >= BarBaseline}

DayLabelText(k) ==
    IF barOps[k].op = "xtick" THEN barOps[k].args[2] ELSE barOps[k].args[3]

TickX(k) == barOps[k].args[1]

\* C14: every day of the month the chart has gone through, zero-activity days
\* included, has exactly one axis tick and exactly one day label of two digits
\* reading its day of the month, whether or not a bar is drawn for it; on the
\* charts generate_monthly_charts draws the ticks of different days are at
\* different places inside the canvas.
C14_TickAndLabelPerDay ==
    \A d \in 0..(bi - 1) :
        /\ Cardinality(TicksOf(d)) = 1
        /\ Cardinality(DayLabelsOf(d)) = 1
        /\ \A k \in DayLabelsOf(d) :
              /\ Len(DayLabelText(k)) = 2
              /\ ParseInt(DayLabelText(k), 0) = d + 1
              /\ barSeries.days[d + 1][3] = d + 1
        /\ GeneratedChart =>
              \A k \in TicksOf(d) :
                  /\ barBackend = "fallback" => TickX(k) \in 0..(barW - 1)
                  /\ \A e \in 0..(bi - 1) : \A j \in TicksOf(e) :
                        e # d => TickX(j) # TickX(k)

\* a finished chart of a whole month holding a day with a bar and a day
\* without activity, both ticked and labelled
C14_Witness ==
    /\ bpc = "done" /\ bi = Len(barSeries.days) /\ bi >= 28
    /\ GeneratedChart
    /\ \E d \in BarDays : \E e \in BarDays :
          /\ SegmentsOf(d, INCOME_RGB) # {}
          /\ barSeries.income[e + 1] = 0 /\ barSeries.spending[e + 1] = 0
          /\ SegmentsOf(e, INCOME_RGB) \cup SegmentsOf(e, SPENDING_RGB) = {}
          /\ TicksOf(e) # {} /\ DayLabelsOf(e) # {}

\* the rectangles drawn for the bar of a day, segments and outline
BarRectsOf(day) ==
    {k \in 1..Len(barOps) : barOps[k].day = day /\ barOps[k].op = "rect"}

\* bucket width = max(minimum floor, floor(plot width / number of days))
ExpectedBucket ==
    LET q == (barW - 2 * BAR_MARGIN) \div Len(barSeries.days)
    IN  IF q < 3 THEN 3 ELSE q

\* bucket width - 1 clamped to 2..14
ExpectedBarWidth ==
    IF ExpectedBucket - 1 < 2 THEN 2
    ELSE IF ExpectedBucket - 1 > 14 THEN 14 ELSE ExpectedBucket - 1

\* C20: in the fallback daily chart the bucket of day i starts at
\* x0 = margin + i * bucket width, with bucket width = max(3, floor(plot
\* width / number of days)); every rectangle of the day's bar is bucket
\* width - 1 clamped to 2..14 pixels wide and lies inside [x0, x0 + bucket
\* width) with left and right gaps differing by at most one pixel.
C20_BarCenteredInBucket ==
    barBackend = "fallback" =>
        \A d \in 0..(bi - 1) :
            LET x0 == BAR_MARGIN + d * ExpectedBucket
            IN  /\ \A t \in TicksOf(d) : TickX(t) = x0
                /\ \A k \in BarRectsOf(d) :
                      LET left == barOps[k].args[1] - x0
                          right == x0 + ExpectedBucket
                                   - (barOps[k].args[1] + barOps[k].args[3])
                      IN  /\ barOps[k].args[3] = ExpectedBarWidth
                          /\ left >= 0 /\ right >= 0
                          /\ Abs(left - right) <= 1

\* a finished chart whose bars are capped at 14 pixels in wider buckets
C20_Witness ==
    /\ bpc = "done" /\ barBackend = "fallback"
    /\ ExpectedBucket > 15
    /\ \E d \in BarDays : \E k \in BarRectsOf(d) :
          /\ d > 0
          /\ barOps[k].args[3] = 14
          /\ barOps[k].args[1] > BAR_MARGIN + d * ExpectedBucket

(***************************************************************************)
(* generate_monthly_charts: claims                                          *)
(***************************************************************************)
RecordsOf(month) == SelectSeq(allRecords, LAMBDA r : month_key(r.date_iso) = month)

OutputsFor(month) == {i \in 1..Len(outputs) : outputs[i][1] = month}

\* C15: when generate_monthly_charts returns, the charts directory exists and
\* holds, for every month key with at least one record, exactly the two files
\* <month>_income_vs_spending.png and <month>_daily_income_spending.png, the
\* names sync_only looks up, and nothing else; the returned mapping has
\* exactly one entry per such month, holding both paths and the summary of
\* the month's records.
C15_TwoFilesPerMonth ==
    gpc = "done" =>
        /\ chartsDir
        /\ files = UNION {{sync_chart_files(m).pie, sync_chart_files(m).bar} : m \in InputMonths}
        /\ Cardinality(files) = 2 * Cardinality(InputMonths)
        /\ Len(outputs) = Cardinality(InputMonths)
        /\ \A m \in InputMonths :
              /\ Cardinality(OutputsFor(m)) = 1
              /\ \A i \in OutputsFor(m) :
                    /\ outputs[i][2].pie = sync_chart_files(m).pie
                    /\ outputs[i][2].bar = sync_chart_files(m).bar
                    /\ outputs[i][2].pie \in files /\ outputs[i][2].bar \in files
                    /\ outputs[i][2].summary = summarize_month(RecordsOf(m))

\* a run over the records of two months that has returned
C15_Witness ==
    /\ gpc = "done"
    /\ Cardinality(InputMonths) = 2
    /\ Len(outputs) = 2
    /\ Cardinality(files) = 4
    /\ chartsDir

SurfaceIds == 1..Len(surfaces)

\* the call a step appends to the call log, <<>> when it appends none
CallMade ==
    IF Len(calls') = Len(calls) + 1 THEN calls'[Len(calls')] ELSE <<>>

\* C17: in the fallback path every Canvas but the last created has been drawn
\* and passed to save_png before the next Canvas was created; a Canvas is
\* encoded only after it was drawn, and at most once; once encoded it is never
\* drawn on or encoded again; it changes only by a drawing call or the
\* save_png call of the month that created it; and when the run returns every
\* chart of every month had a Canvas of its own, drawn once and encoded once.
C17_CanvasOwnedAndSavedOnce ==
    /\ [](\A i \in SurfaceIds :
            /\ i < Len(surfaces) => surfaces[i].drawn = 1 /\ surfaces[i].saved = 1
            /\ surfaces[i].saved <= 1
            /\ surfaces[i].saved = 1 => surfaces[i].drawn = 1
            /\ \A j \in SurfaceIds :
                  i # j => <<surfaces[i].month, surfaces[i].chart>>
                           # <<surfaces[j].month, surfaces[j].chart>>)
    /\ [][/\ Len(surfaces') >= Len(surfaces)
          /\ \A i \in SurfaceIds :
                /\ surfaces[i].saved = 1 => surfaces'[i] = surfaces[i]
                /\ surfaces'[i].drawn # surfaces[i].drawn =>
                      CallMade \in {<<"_fallback_pie", surfaces[i].month>>,
                                    <<"_fallback_bars", surfaces[i].month>>}
                /\ surfaces'[i].saved # surfaces[i].saved =>
                      CallMade = <<"save_png", surfaces[i].month>>]_vars
    /\ [](gpc = "done" /\ ~hasMatplotlib =>
            /\ Len(surfaces) = 2 * Cardinality(InputMonths)
            /\ \A i \in SurfaceIds : surfaces[i].drawn = 1 /\ surfaces[i].saved = 1)

\* a fallback run over two months that has returned: four canvases, each
\* drawn and encoded
C17_Witness ==
    /\ gpc = "done" /\ ~hasMatplotlib
    /\ Cardinality(InputMonths) = 2
    /\ Len(surfaces) = 4
    /\ \A i \in SurfaceIds : surfaces[i].drawn = 1 /\ surfaces[i].saved = 1
    /\ locals.pie = 3 /\ locals.bar = 4

\* the chart files a run without failure writes
ExpectedFiles ==
    UNION {{sync_chart_files(m).pie, sync_chart_files(m).bar} : m \in InputMonths}

\* C18: when save_png fails for one file, the run has passed every canvas to
\* save_png at most once, the exception reaching the caller is the one
\* save_png raised for that file, and every other chart file of the run, of
\* the same month and of the other months, is written.
C18_FailureIsLocal ==
    gpc = "raised" =>
        /\ \A i \in SurfaceIds : surfaces[i].saved <= 1
        /\ raised # None
        /\ raised[1][2] \in ExpectedFiles
        /\ \A f \in ExpectedFiles : f # raised[1][2] => f \in files

(***************************************************************************)
(* Canvas.set_pixel: claims                                                 *)
(***************************************************************************)
\* C19: a set_pixel(x, y, color) call with x < 0, x >= width, y < 0 or
\* y >= height changes no pixel and raises nothing (a negative x does not
\* reach the previous row); a call in bounds sets the pixel at y * width + x
\* to the colour and leaves every other pixel, the width and the height as
\* they were.
C19_SetPixelClips ==
    [][pixelCall' # pixelCall =>
          LET x == pixelCall'[1][1]
              y == pixelCall'[1][2]
              w == canvas.width
              h == canvas.height
          IN  /\ outcome' = outcome
              /\ canvas'.width = w /\ canvas'.height = h
              /\ Len(canvas'.pixels) = w * h
              /\ IF x < 0 \/ x >= w \/ y < 0 \/ y >= h
                 THEN canvas'.pixels = canvas.pixels
                 ELSE \A i \in 0..(w * h - 1) :
                         canvas'.pixels[i + 1] =
                             IF i = y * w + x THEN pixelCall'[1][3]
                             ELSE canvas.pixels[i + 1]]_vars

\* a canvas of two rows or more after set_pixel(-1, height - 1, color): the
\* last pixel of the row above is still the background
C19_Witness ==
    /\ pixelCall # None
    /\ pixelCall[1][1] = -1 /\ pixelCall[1][2] >= 1
    /\ canvas.width >= 2
    /\ drawn = <<"pixel">>
    /\ canvas.pixels[pixelCall[1][2] * canvas.width] = WHITE

(***************************************************************************)
(* Concurrent renders: claims                                               *)
(***************************************************************************)
RendersDone == \A t \in Renders : cpc[t].step = "done"

\* what the two renders leave when one runs after the other
SequentialFiles ==
    {<<ChartPath(t, chart), {ChartOf(t, chart)}>> : t \in Renders, chart \in {"pie", "bar"}}

SequentialOut(t) ==
    Some([pie |-> chart_file(RenderMonth[t], "income_vs_spending"),
          bar |-> chart_file(RenderMonth[t], "daily_income_spending"),
          summary |-> summarize_month(RenderRecords(t))])

\* C16: when two renders of different months have run under any interleaving
\* of their steps, the chart files hold what they hold after a sequential
\* run, every file the chart of its own month and nothing else, and each
\* render has returned the paths and the summary of its own month.
C16_InterleavingSameAsSequential ==
    RendersDone =>
        /\ cFiles = SequentialFiles
        /\ \A t \in Renders : cOut[t] = SequentialOut(t)

(***************************************************************************)
(* Canvas.draw_text, draw_line and the canvas as a whole: claims            *)
(***************************************************************************)
KnownChars == {"0", "1", "2", "3", "4", "5", "6", "7", "8", "9", ".", "-", ",", " "}

\* the pixels the glyph of a known character has set, drawn with its left
\* edge at column left and its top at row top
KnownGlyphPoints(char, left, top, scale) ==
    {<<left + p[2] * scale + d[2], top + p[1] * scale + d[1]>> :
        p \in {q \in (0..4) \X (0..2) : DIGIT_FONT[char][q[1] + 1][q[2] + 1] = 1},
        d \in (0..(scale - 1)) \X (0..(scale - 1))}

\* every character, known or not, takes one glyph width (3 columns and one
\* of spacing, times the scale): character k starts at x + (k - 1) * 4 * scale
ExpectedTextPoints(x, y, text, scale) ==
    UNION {IF text[k] \in KnownChars
           THEN KnownGlyphPoints(text[k], x + (k - 1) * 4 * scale, y, scale)
           ELSE {} : k \in 1..Len(text)}

\* C21: draw_text sets exactly the pixels of the glyphs of the known
\* characters of the text, each drawn one glyph width after the character
\* before it whether that character is known or not; a character outside
\* the glyph table sets no pixel.
C21_UnknownCharsBlankButAdvance ==
    [][textCall' # textCall =>
          LET a == textCall'[1]
              pts == ExpectedTextPoints(a[1], a[2], a[3], a[4])
              w == canvas.width
          IN  /\ canvas'.width = w /\ canvas'.height = canvas.height
              /\ \A i \in 0..(w * canvas.height - 1) :
                    canvas'.pixels[i + 1] =
                        IF <<i % w, i \div w>> \in pts THEN TEXT_RGB
                        ELSE canvas.pixels[i + 1]]_vars

\* the text "x1" drawn four columns left of the canvas: the unknown "x" has
\* set nothing and the "1" stands in the first three columns
C21_Witness ==
    /\ textCall = Some(<<-4, 0, <<"x", "1">>, 1>>)
    /\ drawn = <<"text">>
    /\ canvas.width >= 3 /\ canvas.height >= 2
    /\ canvas.pixels[2] = TEXT_RGB /\ canvas.pixels[1] = WHITE
    /\ canvas.pixels[canvas.width + 1] = TEXT_RGB

\* the colours handed to the drawing calls
PassedColors == {INCOME_RGB, SPENDING_RGB, TEXT_RGB, AXIS_RGB, OUTLINE_RGB}

LinePathSteps ==
    \A i \in 1..(Len(lineRun.visited) - 1) :
        /\ Abs(lineRun.visited[i + 1][1] - lineRun.visited[i][1]) <= 1
        /\ Abs(lineRun.visited[i + 1][2] - lineRun.visited[i][2]) <= 1

LineReturned ==
    /\ lineRun.visited[1] = <<lineRun.x1, lineRun.y1>>
    /\ lineRun.visited[Len(lineRun.visited)] = <<lineRun.x2, lineRun.y2>>
    /\ Len(lineRun.visited)
           = Max2(Abs(lineRun.x2 - lineRun.x1), Abs(lineRun.y2 - lineRun.y1)) + 1

\* C23: draw_line returns for every pair of endpoints; it visits the start
\* first and the end last, no step moves more than one pixel in x or in y,
\* and it visits max(|x2 - x1|, |y2 - y1|) + 1 points.
C23_LineTerminatesOnShortestPath ==
    /\ [](lineRun.pc \in {"loop", "done"} => LinePathSteps)
    /\ [](lineRun.pc = "done" => LineReturned)
    /\ <>(lineRun.pc = "done")

\* a steep line towards the upper left has been drawn to its end
C23_Witness ==
    /\ lineRun.pc = "done"
    /\ lineRun.x2 < lineRun.x1 /\ lineRun.y2 < lineRun.y1
    /\ lineRun.y1 - lineRun.y2 > lineRun.x1 - lineRun.x2 + 1
    /\ Len(lineRun.visited) = lineRun.y1 - lineRun.y2 + 1

\* C24: in every daily chart generate_monthly_charts draws without matplotlib
\* the bucket is at least 12 pixels wide, every bar lies between the two
\* margins, and for every day with a positive total the two segment heights
\* are non-negative, add up to the bar's height, and that height is between
\* 1 and the plot height.
C24_FallbackGeometryInBounds ==
    (barBackend = "fallback" /\ barW = bar_canvas_width(Len(barSeries.days))) =>
        \A d \in 0..(bi - 1) :
            LET g == bar_geometry(barW, BAR_HEIGHT, barSeries, d)
            IN  /\ g.bucket_w >= 12
                /\ BAR_MARGIN <= g.bar_left
                /\ g.bar_left + g.bar_w <= barW - BAR_MARGIN
                /\ g.total > 0 =>
                      /\ g.spending_h >= 0
                      /\ g.income_h >= 0
                      /\ g.spending_h + g.income_h = g.total_h
                      /\ 1 <= g.total_h
                      /\ g.total_h <= plot_height(BAR_HEIGHT)

ConvFailures == {k \in 1..Len(convRun.calls) : convRun.calls[k].raised}

ConvResultSet == {convRun.result[1][k] : k \in 1..Len(convRun.result[1])}

\* C25: convert_folder calls convert_pdf on the PDFs in path order.  Without
\* fail_fast it never raises, it returns only after a call for every PDF, and
\* its result holds every markdown file a successful call returned.  With
\* fail_fast the first failing call is the last call and the exception
\* reaches the caller.
C25_FailFastStopsElseAllAttempted ==
    convRun.pc # "idle" =>
        /\ \A k \in 1..Len(convRun.calls) : convRun.calls[k].pdf = convRun.pdfs[k]
        /\ \A k \in 1..(Len(convRun.pdfs) - 1) : convRun.pdfs[k] < convRun.pdfs[k + 1]
        /\ ~convRun.fail_fast =>
              /\ convRun.pc # "raised"
              /\ convRun.pc = "done" =>
                    /\ Len(convRun.calls) = Len(convRun.pdfs)
                    /\ \A k \in 1..Len(convRun.calls) :
                          \A n \in 1..Len(convRun.calls[k].outputs) :
                              convRun.calls[k].outputs[n] \in ConvResultSet
        /\ convRun.fail_fast =>
              /\ convRun.pc = "raised" <=> ConvFailures # {}
              /\ \A k \in ConvFailures : k = Len(convRun.calls)
              /\ convRun.pc = "done" => Len(convRun.calls) = Len(convRun.pdfs)

\* without fail_fast: the first PDF failed, a later one was converted and its
\* markdown is returned
C25_Witness ==
    /\ convRun.pc = "done" /\ ~convRun.fail_fast
    /\ Len(convRun.calls) >= 2
    /\ convRun.calls[1].raised
    /\ ~convRun.calls[Len(convRun.calls)].raised
    /\ ConvResultSet # {}

\* the records emitted so far, and all of them once the parser has returned
MdEmitted ==
    IF mdRun.pc = "done"
    THEN {mdRun.result[1][k] : k \in 1..Len(mdRun.result[1])}
    ELSE {mdRun.records[k] : k \in 1..Len(mdRun.records)}

\* C26 as stated: every emitted transaction comes from a statement row with a
\* header row before it and no <table> tag between the two (header-seen is
\* reset at the start of every table), and never from a header row.
C26_HeaderSeenResetAtEveryTable ==
    mdRun.pc # "idle" =>
        \A r \in MdEmitted :
            /\ mdRun.doc[r.token] \in {"early", "late"}
            /\ \E h \in 1..(r.token - 1) :
                  /\ mdRun.doc[h] = "header"
                  /\ \A k \in h..r.token : mdRun.doc[k] # "open"

\* C26, amended: every emitted transaction comes from a statement row with a
\* header row before it and no </table> tag between the two, that is, inside
\* the same <table ...>...</table> match, and never from a header row; the
\* result is in date order.
C26_HeaderSeenResetAtEveryMatch ==
    mdRun.pc # "idle" =>
        /\ \A r \in MdEmitted :
              /\ mdRun.doc[r.token] \in {"early", "late"}
              /\ \E h \in 1..(r.token - 1) :
                    /\ mdRun.doc[h] = "header"
                    /\ \A k \in h..r.token : mdRun.doc[k] # "close"
        /\ mdRun.pc = "done" =>
              \A k \in 1..(Len(mdRun.result[1]) - 1) :
                  mdRun.result[1][k].day <= mdRun.result[1][k + 1].day

\* a closed table with a header and a statement row, then a table with a
\* statement row and no header: only the first row is returned
C26_Witness ==
    /\ mdRun.pc = "done"
    /\ mdRun.doc = <<"open", "header", "late", "close", "open", "early", "close">>
    /\ Len(mdRun.result[1]) = 1
    /\ mdRun.result[1][1].token = 3

\* the position of the first piece equal to p (0: none)
FirstAt(text, p) ==
    IF Contains(text, p) THEN CHOOSE k \in 1..Len(text) :
                                  text[k] = p /\ \A j \in 1..(k - 1) : text[j] # p
    ELSE 0

\* the text before the managed block of a file that has one
TextBeforeBlock(text) == SubSeq(text, 1, FirstAt(text, START_MARKER) - 1)

HasBlock(text) ==
    /\ Contains(text, START_MARKER) /\ Contains(text, END_MARKER)
    /\ FirstAt(text, START_MARKER) < FirstAt(text, END_MARKER)

\* C27: a sync keeps the text that stands before the managed block of the
\* existing preview file, and a second sync with the same inputs leaves the
\* file as the first one left it.
C27_PreviewSyncIdempotent ==
    previewRun.pc # "idle" =>
        /\ \A k \in 2..Len(previewRun.written) :
              (previewRun.written[k - 1] # None /\ HasBlock(previewRun.written[k - 1][1])) =>
                  LET kept == TextBeforeBlock(previewRun.written[k - 1][1])
                  IN  SubSeq(previewRun.written[k][1], 1, Len(kept)) = kept
        /\ (Len(previewRun.reports) = 2 /\ previewRun.reports[1] = previewRun.reports[2]) =>
              previewRun.written[3] = previewRun.written[2]

\* C28: a token handed out by the cache at time t was stored at a time t0
\* with an expires_in such that t < t0 + expires_in.
C28_CacheNeverReturnsExpiredToken ==
    (tokenRun.pc # "idle" /\ tokenRun.hit # None) =>
        LET h == tokenRun.hit[1]
        IN  h.at < tokenRun.issued[h.token].saved_at
                   + tokenRun.issued[h.token].expires_in

\* C29: load_config after save_config returns the config that was saved, and
\* DEFAULT_CONFIG is what it was.
C29_ConfigRoundTrips ==
    cfgRun.pc = "done" =>
        /\ ~cfgRun.raised
        /\ cfgRun.loaded = Some(cfgRun.config)
        /\ cfgRun.defaults = DEFAULT_CONFIG

\* the pages of a listing whose title matches settings.page_title
MatchingPages(pages) ==
    {k \in 1..Len(pages) : strip_lower(pages[k].title) = strip_lower(PAGE_TITLE)}

\* C30: when sync_to_onenote_graph has returned, the section holds exactly
\* one page whose title matches page_title; when it has failed, a matching
\* page that existed before the call still exists.
C30_PageReplacedOrKept ==
    /\ graphRun.pc = "done" => Cardinality(MatchingPages(graphRun.pages)) = 1
    /\ graphRun.pc = "failed" =>
          (MatchingPages(graphRun.before) # {} => MatchingPages(graphRun.pages) # {})

============================================================================
